---------------------------- MODULE Spec2Model ----------------------------
(***************************************************************************)
(* A model of QSMxT's oblique-to-axial resampling                          *)
(* (interfaces/nipype_interface_axialsampling.py): resample_to_axial,      *)
(* resample_files and resample_like, acting on a small file system of      *)
(* NIfTI volumes.                                                          *)
(*                                                                         *)
(* Conventions.                                                            *)
(*  - A path is a sequence of tokens: "/" and "." are the separators the   *)
(*    code splits on, "_resampled" is the suffix the code inserts, every   *)
(*    other token is a piece of a name that holds none of these.  The      *)
(*    empty path <<>> is a falsy file reference (None, Undefined, "").     *)
(*  - Every entry of an affine is held as the integer 2*x (one binary      *)
(*    fractional digit), because the code halves integer extents.          *)
(*    Real(n) is the held form of the integer n.                           *)
(*  - An obliquity angle is held as two bounds it lies between, in units   *)
(*    of 1e-7 degree; the bounds of 0 and of 90 degrees coincide.  Voxel   *)
(*    sizes are whole millimetres.                                         *)
(*  - Every file is an image nibabel can read and write, whatever its      *)
(*    name.                                                                *)
(*  - Volumes are 3-D.  A label volume carries its voxel values; the       *)
(*    voxel values of an intensity volume are not modelled here.           *)
(***************************************************************************)
EXTENDS Integers, Sequences, FiniteSets, TLC

\* The fields of view of the axial scans considered lie 0..MaxShift voxel
\* pairs off centre along the first axis.
MaxShift == 1

\* The parcel masks considered hold the labels 1..MaxLabel.
MaxLabel == 2

---------------------------------------------------------------------------
(* Small helpers                                                           *)

\* F applied to the value of v, v evaluated once (a local binding).
Bind(v, F(_)) == CHOOSE r \in {F(x) : x \in {v}} : TRUE

Abs(x) == IF x < 0 THEN -x ELSE x

\* np.sign
Sign(x) == IF x > 0 THEN 1 ELSE IF x < 0 THEN -1 ELSE 0

Real(n) == 2 * n

Max2(a, b) == IF a >= b THEN a ELSE b

Min2(a, b) == IF a <= b THEN a ELSE b

\* floor and ceiling of the rational n/d, d > 0
FloorDiv(n, d) == n \div d

CeilDiv(n, d) == -((-n) \div d)

---------------------------------------------------------------------------
(* Paths: os.path.split, str.split('.'), os.path.abspath                   *)

\* os.getcwd(): the directory the call runs in.
Cwd == <<"/", "w">>

\* The first index >= i at which token tok occurs in s, or 0.
RECURSIVE FirstIndex(_, _, _)
FirstIndex(s, tok, i) ==
    IF i > Len(s) THEN 0
    ELSE IF s[i] = tok THEN i
    ELSE FirstIndex(s, tok, i + 1)

\* The last index <= i at which token tok occurs in s, or 0.
RECURSIVE LastIndex(_, _, _)
LastIndex(s, tok, i) ==
    IF i < 1 THEN 0
    ELSE IF s[i] = tok THEN i
    ELSE LastIndex(s, tok, i - 1)

\* os.path.split(p)[1]
Basename(p) == SubSeq(p, LastIndex(p, "/", Len(p)) + 1, Len(p))

\* os.path.split(p)[0] of an absolute normalised path
Dirname(p) ==
    LET i == LastIndex(p, "/", Len(p))
    IN  IF i <= 1 THEN <<"/">> ELSE SubSeq(p, 1, i - 1)

\* s.split('.')[0]
SplitDotFirst(s) ==
    LET i == FirstIndex(s, ".", 1)
    IN  IF i = 0 THEN s ELSE SubSeq(s, 1, i - 1)

\* ".".join(s.split('.')[1:])
SplitDotRest(s) ==
    LET i == FirstIndex(s, ".", 1)
    IN  IF i = 0 THEN <<>> ELSE SubSeq(s, i + 1, Len(s))

\* p.split('/')
RECURSIVE Components(_)
Components(p) ==
    LET i == FirstIndex(p, "/", 1)
    IN  IF i = 0 THEN <<p>>
        ELSE <<SubSeq(p, 1, i - 1)>> \o Components(SubSeq(p, i + 1, Len(p)))

\* posixpath.normpath: the leading slashes that are kept; exactly two
\* leading slashes stay two, any other number of them becomes one.
InitialSlashes(p) ==
    IF p = <<>> \/ p[1] # "/" THEN 0
    ELSE IF Len(p) >= 2 /\ p[2] = "/" /\ ~(Len(p) >= 3 /\ p[3] = "/") THEN 2
    ELSE 1

\* posixpath.normpath, the loop over the components: empty and '.'
\* components are dropped; '..' removes the component before it, is kept
\* at the start of a relative path and after another '..', and is dropped
\* at the root.
RECURSIVE Resolve(_, _, _)
Resolve(comps, stack, initial_slashes) ==
    IF comps = <<>> THEN stack
    ELSE LET c == Head(comps)
         IN  IF c = <<>> \/ c = <<".">>
                THEN Resolve(Tail(comps), stack, initial_slashes)
             ELSE IF \/ c # <<".", ".">>
                     \/ (initial_slashes = 0 /\ stack = <<>>)
                     \/ (stack # <<>> /\ stack[Len(stack)] = <<".", ".">>)
                THEN Resolve(Tail(comps), Append(stack, c), initial_slashes)
             ELSE IF stack # <<>>
                THEN Resolve(Tail(comps), SubSeq(stack, 1, Len(stack) - 1),
                             initial_slashes)
             ELSE Resolve(Tail(comps), stack, initial_slashes)

\* '/'.join(comps)
RECURSIVE JoinSlash(_)
JoinSlash(stack) ==
    IF stack = <<>> THEN <<>>
    ELSE IF Len(stack) = 1 THEN Head(stack)
    ELSE Head(stack) \o <<"/">> \o JoinSlash(Tail(stack))

\* posixpath.normpath
Normpath(p) ==
    LET n == InitialSlashes(p)
        r == [i \in 1..n |-> "/"] \o JoinSlash(Resolve(Components(p), <<>>, n))
    IN  IF r = <<>> THEN <<".">> ELSE r

\* posixpath.join(a, p)
PathJoin(a, p) ==
    IF p # <<>> /\ p[1] = "/" THEN p
    ELSE IF a = <<>> \/ a[Len(a)] = "/" THEN a \o p
    ELSE a \o <<"/">> \o p

\* os.path.abspath in a process whose working directory is cwd
AbspathIn(cwd, p) ==
    Normpath(IF p # <<>> /\ p[1] = "/" THEN p ELSE PathJoin(cwd, p))

\* os.path.abspath
Abspath(p) == AbspathIn(Cwd, p)

\* mag_fname, pha_fname, mask_fname, in_fname
Fname(file) == SplitDotFirst(Basename(file))

\* mag_extension, pha_extension, mask_extension, in_extension:
\* split on the whole path, not on its base name
Extension(file) == SplitDotRest(file)

\* mag_resampled_fname, pha_resampled_fname, mask_resampled_fname,
\* in_resampled_fname
ResampledFname(file) ==
    Abspath(Fname(file) \o <<"_resampled", ".">> \o Extension(file))

\* mag_resampled_fname, ... in a process whose working directory is cwd
ResampledFnameIn(cwd, file) ==
    AbspathIn(cwd, Fname(file) \o <<"_resampled", ".">> \o Extension(file))

\* The directories that exist: the working directory, the directories
\* above it and above every file.
RECURSIVE Ancestors(_)
Ancestors(d) ==
    IF d = <<"/">> THEN {d} ELSE {d} \cup Ancestors(Dirname(d))

Dirs(files) ==
    Ancestors(Cwd) \cup UNION {Ancestors(Dirname(f)) : f \in files}

\* The directories that exist when processes work in the directories cwds.
DirsIn(cwds, files) ==
    UNION {Ancestors(c) : c \in cwds}
    \cup UNION {Ancestors(Dirname(f)) : f \in files}

\* nib.save with the working directories cwds in existence
CanSaveIn(cwds, path, files) ==
    Dirname(path) \in DirsIn(cwds, files) /\ path \notin DirsIn(cwds, files)

\* nib.save can create the file: its directory exists and it is not itself
\* a directory.
CanSave(path, files) == Dirname(path) \in Dirs(files) /\ path \notin Dirs(files)

\* The error of nib.save when open(path, 'wb') fails: the path is a
\* directory, or lies below a regular file, or below nothing at all.
SaveErrorIn(cwds, path, files) ==
    IF path \in DirsIn(cwds, files) THEN "IsADirectoryError"
    ELSE IF Ancestors(Dirname(path)) \cap files # {}
    THEN "NotADirectoryError"
    ELSE "FileNotFoundError"

SaveError(path, files) == SaveErrorIn({Cwd}, path, files)

---------------------------------------------------------------------------
(* Affines: 4x4 tuples of rows, every entry held doubled                   *)

Idx3 == 1..3

\* np.eye(4)
Eye4 ==
    << <<Real(1), 0, 0, 0>>, <<0, Real(1), 0, 0>>,
       <<0, 0, Real(1), 0>>, <<0, 0, 0, Real(1)>> >>

\* np.diag(a)
Diag(a) == [i \in 1..4 |-> a[i][i]]

\* np.fill_diagonal(a, val): val is repeated when shorter than the diagonal
FillDiagonal(a, val) ==
    [i \in 1..4 |->
        [j \in 1..4 |->
            IF i = j THEN val[((i - 1) % Len(val)) + 1] ELSE a[i][j]]]

\* A faulty variant of the corner fix of line 15: the entry is left as
\* np.fill_diagonal wrote it.
SetCorner_Skipped(a, v) == a

\* a[3,3] = v
SetCorner(a, v) == [a EXCEPT ![4][4] = v]

\* a[:3,3] = col
SetTranslation(a, col) ==
    [i \in 1..4 |-> IF i <= 3 THEN [a[i] EXCEPT ![4] = col[i]] ELSE a[i]]

\* The squared norm of column j of the 3x3 block (nibabel voxel_sizes,
\* before the square root).
ColSq(a, j) == a[1][j] * a[1][j] + a[2][j] * a[2][j] + a[3][j] * a[3][j]

\* Some column of the 3x3 block is zero.
ZeroColumn(a) == \E j \in Idx3 : ColSq(a, j) = 0

\* floor(sqrt(n)) for 0 <= n < 2^31, by bisection between lo and hi.
RECURSIVE RootBetween(_, _, _)
RootBetween(n, lo, hi) ==
    IF lo >= hi THEN lo
    ELSE LET mid == (lo + hi + 1) \div 2
         IN  IF mid * mid <= n THEN RootBetween(n, mid, hi)
             ELSE RootBetween(n, lo, mid - 1)

\* The largest power of 4, from s on, that keeps n * s within 31 bits, for
\* n >= 1: the scale at which the square root of n is taken.
RECURSIVE RootScale(_, _)
RootScale(n, s) ==
    IF s <= 268435456 /\ n <= 2147483647 \div (4 * s)
    THEN RootScale(n, 4 * s)
    ELSE s

\* sqrt(n * RootScale(n, 1)) * 16384 to within one, for n >= 1: the whole
\* root and one step of Newton's correction for the remainder.
FineRoot(n) ==
    LET m  == n * RootScale(n, 1)
        s0 == RootBetween(m, 0, 46340)
    IN  s0 * 16384 + ((m - s0 * s0) * 8192) \div s0

\* sqrt(n) at the scale of sqrt(den), for 1 <= n <= den: between 2^28 and
\* 2^30 for n = den, to within two.
Coordinate(n, den) ==
    LET d == RootBetween(RootScale(n, 1) \div RootScale(den, 1), 0, 46340)
    IN  (FineRoot(n) + d \div 2) \div d

\* atan(2^-i), i = 0..19, in units of 1e-7 degree.
AtanPow2 ==
    << 450000000, 265650512, 140362435, 71250163, 35763344, 17899106,
       8951737, 4476142, 2238105, 1119057, 559529, 279765, 139882, 69941,
       34971, 17485, 8743, 4371, 2186, 1093 >>

\* 2^i
RECURSIVE Pow2(_)
Pow2(i) == IF i = 0 THEN 1 ELSE 2 * Pow2(i - 1)

\* v / 2^i to the nearest whole number.
RoundShift(v, i) == IF i = 0 THEN v ELSE (v + Pow2(i - 1)) \div Pow2(i)

\* np.arctan2(y, x) for x > 0, in units of 1e-7 degree: the vector is
\* turned onto the x axis by the angles atan(2^-i), from step i on, and z
\* adds up the angles it was turned by; what is left after twenty steps is
\* y / x radian (34971 units are 2^-14 radian).
RECURSIVE Vectoring(_, _, _, _)
Vectoring(x, y, z, i) ==
    IF y = 0 THEN z
    ELSE IF i > 19 THEN z + (y * 34971) \div (x \div 16384)
    ELSE IF y > 0
    THEN Vectoring(x + RoundShift(y, i), y - RoundShift(x, i),
                   z + AtanPow2[i + 1], i + 1)
    ELSE Vectoring(x - RoundShift(y, i), y + RoundShift(x, i),
                   z - AtanPow2[i + 1], i + 1)

\* An angle known to lie between lo and hi, in units of 1e-7 degree.
Between(lo, hi) == [nan |-> FALSE, lo |-> lo, hi |-> hi]

\* The angle of 0 / 0.
NaN == [nan |-> TRUE, lo |-> 0, hi |-> 0]

\* np.rad2deg(np.arccos(sqrt(num/den))) for 0 <= num <= den, den >= 1: the
\* angle whose cosine and sine are as sqrt(num) and sqrt(den - num). The
\* angle is 0 for num = den and 90 degrees for num = 0; otherwise it is
\* computed to within 40 units of 1e-7 degree, and the bounds say so.
ArccosDeg(num, den) ==
    IF num = den THEN Between(0, 0)
    ELSE IF num = 0 THEN Between(900000000, 900000000)
    ELSE LET v == Vectoring(Coordinate(num, den),
                            Coordinate(den - num, den), 0, 0)
         IN  Between(Max2(v - 40, 0), Min2(v + 40, 900000000))

\* A faulty variant of the obliquity: the smallest ratio of the row is
\* taken where nibabel takes the largest.
BestColumn_Min(a, i) ==
    CHOOSE j \in Idx3 :
        \A k \in Idx3 :
            a[i][j] * a[i][j] * ColSq(a, k) <= a[i][k] * a[i][k] * ColSq(a, j)

\* Row i of abs(affine[:-1,:-1] / voxel_sizes).max(axis=1), squared, as the
\* column j that gives the largest ratio a[i][j]^2 / ColSq(a, j).
BestColumn(a, i) ==
    CHOOSE j \in Idx3 :
        \A k \in Idx3 :
            a[i][j] * a[i][j] * ColSq(a, k) >= a[i][k] * a[i][k] * ColSq(a, j)

\* np.rad2deg(nib.affines.obliquity(affine)): one angle per row. A zero
\* column divides 0 by 0, and the maximum of every row is then nan.
Obliquity(a) ==
    [i \in Idx3 |->
        IF ZeroColumn(a) THEN NaN
        ELSE LET j == BestColumn(a, i)
             IN  ArccosDeg(a[i][j] * a[i][j], ColSq(a, j))]

\* v * v for 0 <= v < 2^30, as four digits in base 32768, the most
\* significant first.
Square(v) ==
    LET a  == v \div 32768
        b  == v % 32768
        p0 == b * b
        p1 == 2 * a * b + p0 \div 32768
        p2 == a * a + p1 \div 32768
    IN  <<p2 \div 32768, p2 % 32768, p1 % 32768, p0 % 32768>>

\* u^2 + v^2 + w^2 in the same digits.
SumOfSquares(u, v, w) ==
    LET t  == [k \in 1..4 |-> Square(u)[k] + Square(v)[k] + Square(w)[k]]
        d3 == t[3] + t[4] \div 32768
        d2 == t[2] + d3 \div 32768
    IN  <<t[1] + d2 \div 32768, d2 % 32768, d3 % 32768, t[4] % 32768>>

\* p < q for numbers in these digits.
Less(p, q) ==
    \E k \in 1..4 : p[k] < q[k] /\ \A j \in 1..(k - 1) : p[j] = q[j]

\* np.linalg.norm(obliquity), squared: the bounds it lies between, in
\* units of 1e-7 degree squared; nan when the angles are.
ObliquityNormSq(a) ==
    LET o == Obliquity(a)
    IN  [nan |-> o[1].nan,
         lo |-> SumOfSquares(o[1].lo, o[2].lo, o[3].lo),
         hi |-> SumOfSquares(o[1].hi, o[2].hi, o[3].hi)]


\* The integer square root.
ISqrt(n) == CHOOSE r \in 0..n : r * r <= n /\ n < (r + 1) * (r + 1)

\* nibabel's header zooms of an image made with the given affine
\* (set_qform): the column norms of the 3x3 block (held doubled in the
\* affine). Zooms are whole numbers of millimetres here: the operator has
\* a value only for an affine whose column norms are whole, and none for
\* a zero column, from which nibabel derives no rotation.
ZoomsOf(a) ==
    [j \in Idx3 |->
        CHOOSE z \in 1..ISqrt(ColSq(a, j)) : 4 * z * z = ColSq(a, j)]

\* np.allclose(a, b) with its default tolerances, rtol 1e-5 and atol 1e-8,
\* on entries held doubled: |a - b| <= atol + rtol * |b| in every entry.
\* A difference of a half (1 in doubled entries) or more needs |b| to be
\* 100000 times as large.
AllClose(a, b) ==
    \A i, j \in 1..4 :
        LET d == Abs(a[i][j] - b[i][j])
        IN  d = 0 \/ d <= Abs(b[i][j]) \div 100000

\* The determinant of the 3x3 block.
Det3(a) ==
      a[1][1] * (a[2][2] * a[3][3] - a[2][3] * a[3][2])
    - a[1][2] * (a[2][1] * a[3][3] - a[2][3] * a[3][1])
    + a[1][3] * (a[2][1] * a[3][2] - a[2][2] * a[3][1])

\* np.linalg.inv(a) raises LinAlgError: the LU factorisation of the matrix,
\* done in double precision, meets a pivot that is exactly zero. It does
\* not for an invertible matrix, and does for a matrix with a zero column,
\* which stays zero whatever is rounded. For any other singular matrix the
\* last pivot is what the roundings of the factorisation leave, zero or
\* not, and the operator has no value.
Singular(a) ==
    CHOOSE b \in BOOLEAN : IF Det3(a) # 0 THEN ~b ELSE ZeroColumn(a) /\ b

\* The adjugate of the 3x3 block: inverse = Adj3 / Det3.
Adj3(a) ==
    << << a[2][2] * a[3][3] - a[2][3] * a[3][2],
          a[1][3] * a[3][2] - a[1][2] * a[3][3],
          a[1][2] * a[2][3] - a[1][3] * a[2][2] >>,
       << a[2][3] * a[3][1] - a[2][1] * a[3][3],
          a[1][1] * a[3][3] - a[1][3] * a[3][1],
          a[1][3] * a[2][1] - a[1][1] * a[2][3] >>,
       << a[2][1] * a[3][2] - a[2][2] * a[3][1],
          a[1][2] * a[3][1] - a[1][1] * a[3][2],
          a[1][1] * a[2][2] - a[1][2] * a[2][1] >> >>

\* affine . (k, 1): the world position (doubled) of voxel index k.
Apply(a, k) ==
    [i \in Idx3 |-> a[i][1] * k[1] + a[i][2] * k[2] + a[i][3] * k[3] + a[i][4]]

\* inv(affine) . (w, 1) as numerators over the denominator Abs(Det3(a)).
InvApplyNum(a, w) ==
    LET adj == Adj3(a)
        sd  == Sign(Det3(a))
    IN  [i \in Idx3 |->
            sd * (  adj[i][1] * (w[1] - a[1][4])
                  + adj[i][2] * (w[2] - a[2][4])
                  + adj[i][3] * (w[3] - a[3][4]))]

---------------------------------------------------------------------------
(* Volumes                                                                 *)

\* The voxel indices of a shape.
Grid(shape) == (0..(shape[1] - 1)) \X (0..(shape[2] - 1)) \X (0..(shape[3] - 1))

\* A volume: its header (shape, zooms, sform), the affine the image object
\* holds and its data. For a volume in a file the affine is the sform.
NoVol == [kind |-> "none", shape |-> <<>>, zooms |-> <<>>, sform |-> <<>>,
          affine |-> <<>>, data |-> <<>>]

\* nib.Nifti1Image(data, affine, header); header is the volume whose header
\* is passed, <<>> for None. The image holds the affine it is given. The
\* header's shape follows the data. A header whose own affine is close to
\* the given one (np.allclose) is kept as it is, zooms and sform; otherwise,
\* and without a header, sform and zooms are set from the given affine
\* (set_sform, set_qform). From an affine with a zero column set_qform
\* derives no rotation: the constructor raises numpy's LinAlgError.
Nifti1Image(kind, shape, affine, data, header) ==
    LET kept == header # <<>> /\ AllClose(affine, header.sform)
    IN  IF ~kept /\ ZeroColumn(affine)
        THEN [ok |-> FALSE, error |-> "LinAlgError", img |-> NoVol]
        ELSE [ok |-> TRUE, error |-> "",
              img |-> [kind |-> kind, shape |-> shape,
                       zooms |-> IF kept THEN header.zooms
                                 ELSE ZoomsOf(affine),
                       sform |-> IF kept THEN header.sform ELSE affine,
                       affine |-> affine, data |-> data]]

\* The values a label volume holds.
Labels(vol) == {vol.data[k] : k \in DOMAIN vol.data}

---------------------------------------------------------------------------
(* nilearn.image.resample_img                                              *)

\* get_bounds(shape, inv(target_affine) . affine): per axis, the largest
\* target voxel coordinate of the 8 corners of the source box, as a
\* numerator over Abs(Det3(target)).
Corners(shape) ==
    {0, shape[1] - 1} \X {0, shape[2] - 1} \X {0, shape[3] - 1}

BoundsMaxNum(shape, affine, target) ==
    Bind({InvApplyNum(target, Apply(affine, c)) : c \in Corners(shape)},
         LAMBDA nums :
            [i \in Idx3 |-> CHOOSE m \in {n[i] : n \in nums} :
                                \A n \in nums : n[i] <= m])

\* target_shape = ceil(max) + 1 per axis
InferredShape(mx, den) == [i \in Idx3 |-> CeilDiv(mx[i], den) + 1]

\* A faulty variant of the nearest-neighbour sampling: positions outside
\* the source are filled with -1 where the code fills with 0.
NearestSample_FillMinusOne(vol, target, k) ==
    LET num == InvApplyNum(vol.affine, Apply(target, k))
        den == Abs(Det3(vol.affine))
        inside == \A i \in Idx3 :
                      0 <= num[i] /\ num[i] <= (vol.shape[i] - 1) * den
        src == [i \in Idx3 |-> FloorDiv(2 * num[i] + den, 2 * den)]
    IN  IF inside THEN vol.data[<<src[1], src[2], src[3]>>] ELSE -1

\* scipy.ndimage.affine_transform, order 0, mode 'constant', cval 0: the
\* value of the source voxel nearest to the target voxel's position, and 0
\* where that position lies outside the source's index range.
NearestSample(vol, target, k) ==
    LET num == InvApplyNum(vol.affine, Apply(target, k))
        den == Abs(Det3(vol.affine))
        inside == \A i \in Idx3 :
                      0 <= num[i] /\ num[i] <= (vol.shape[i] - 1) * den
        src == [i \in Idx3 |-> FloorDiv(2 * num[i] + den, 2 * den)]
    IN  IF inside THEN vol.data[<<src[1], src[2], src[3]>>] ELSE 0

\* The voxel values of the resampled image.  Only nearest-neighbour
\* resampling of label data is carried; otherwise the values are not
\* modelled.
ResampledData(vol, target, shape, interpolation) ==
    IF vol.kind = "label" /\ interpolation = "nearest"
    THEN [k \in Grid(shape) |-> NearestSample(vol, target, k)]
    ELSE <<>>

ResampledKind(vol, interpolation) ==
    IF vol.kind = "label" /\ interpolation = "nearest" THEN "label"
    ELSE "intensity"

\* What a resample_img call gives: the image, or the error it raised, and
\* the interpolation it was asked for.
Resampled(img, interpolation) ==
    [ok |-> TRUE, error |-> "", img |-> img, interpolation |-> interpolation]

NotResampled(err, interpolation) ==
    [ok |-> FALSE, error |-> err, img |-> NoVol,
     interpolation |-> interpolation]

\* A faulty variant of the resampler: a target affine that cannot be
\* inverted is not an error, the image is handed back as it is.
resample_img_SingularUnchanged(img, target_affine, target_shape, interpolation) ==
    IF target_shape # <<>> /\ target_shape = img.shape
       /\ AllClose(target_affine, img.affine)
    THEN Resampled(img, interpolation)
    ELSE IF Singular(target_affine)
    THEN Resampled(img, interpolation)
    ELSE Bind(BoundsMaxNum(img.shape, img.affine, target_affine),
         LAMBDA mx :
         Bind(IF target_shape = <<>>
              THEN InferredShape(mx, Abs(Det3(target_affine)))
              ELSE target_shape,
         LAMBDA shape :
             IF \E i \in Idx3 : mx[i] < 0
             THEN NotResampled("BoundingBoxError", interpolation)
             ELSE IF Singular(img.affine)
             THEN NotResampled("LinAlgError", interpolation)
             ELSE Bind(Nifti1Image(
                           ResampledKind(img, interpolation), shape,
                           target_affine,
                           ResampledData(img, target_affine, shape,
                                         interpolation),
                           <<>>),
                  LAMBDA new :
                      IF new.ok THEN Resampled(new.img, interpolation)
                      ELSE NotResampled(new.error, interpolation))))

\* resample_img(img, target_affine, target_shape, interpolation);
\* target_shape = <<>> stands for None. With the image's shape for target
\* and a target affine close to the image's (np.allclose) the image itself
\* is returned. The result is a new image without the source's header.
resample_img(img, target_affine, target_shape, interpolation) ==
    IF target_shape # <<>> /\ target_shape = img.shape
       /\ AllClose(target_affine, img.affine)
    THEN Resampled(img, interpolation)
    ELSE IF Singular(target_affine)
    THEN NotResampled("LinAlgError", interpolation)
    ELSE Bind(BoundsMaxNum(img.shape, img.affine, target_affine),
         LAMBDA mx :
         Bind(IF target_shape = <<>>
              THEN InferredShape(mx, Abs(Det3(target_affine)))
              ELSE target_shape,
         LAMBDA shape :
             IF \E i \in Idx3 : mx[i] < 0
             THEN NotResampled("BoundingBoxError", interpolation)
             ELSE IF Singular(img.affine)
             THEN NotResampled("LinAlgError", interpolation)
             ELSE Bind(Nifti1Image(
                           ResampledKind(img, interpolation), shape,
                           target_affine,
                           ResampledData(img, target_affine, shape,
                                         interpolation),
                           <<>>),
                  LAMBDA new :
                      IF new.ok THEN Resampled(new.img, interpolation)
                      ELSE NotResampled(new.error, interpolation))))

---------------------------------------------------------------------------
(* resample_to_axial                                                       *)

\* Lines 10-16: the canonical axial target affine of the magnitude volume.
BaseAffine(mag_nii) ==
    LET voxel_size == mag_nii.zooms
        resolution == mag_nii.shape
        d          == Diag(mag_nii.affine)
        \* voxel_size * resolution / 2, held doubled
        origin     == [i \in Idx3 |->
                          Real(voxel_size[i] * resolution[i]) \div 2]
        a1 == FillDiagonal(Eye4,
                  [i \in Idx3 |-> Real(voxel_size[i]) * Sign(d[i])])
        a2 == SetCorner(a1, Real(1))
    IN  SetTranslation(a2, [i \in Idx3 |-> origin[i] * (-Sign(d[i]))])

\* numpy broadcasting of two 3-D shapes (mag * np.cos(pha)); <<>> when the
\* operands cannot be broadcast together.
Broadcast(s, t) ==
    IF \A i \in Idx3 : s[i] = t[i] \/ s[i] = 1 \/ t[i] = 1
    THEN [i \in Idx3 |-> IF s[i] = 1 THEN t[i] ELSE s[i]]
    ELSE <<>>

\* A faulty variant of the interpolation choice: every channel, the mask
\* included, is resampled continuously.
Interpolation_AllContinuous(channel) == "continuous"

\* The interpolation resample_to_axial asks for, per channel.
Interpolation(channel) ==
    IF channel = "mask" THEN "nearest" ELSE "continuous"

\* One resample_img call, as logged: the channel and the interpolation the
\* call was made with.
Logged(channel, rot) ==
    [channel |-> channel, interpolation |-> rot.interpolation]

\* What resample_to_axial leaves when it raises.
AxialFailed(err, base_affine, log) ==
    [ok |-> FALSE, error |-> err, base_affine |-> base_affine,
     interp |-> log, mag |-> NoVol, pha |-> NoVol, mask |-> NoVol,
     has_mask |-> FALSE]

\* Lines 28-45, once the real and imaginary channels are made.
AxialResampled(mag_nii, pha_nii, real_nii, mask_nii, has_mask, base_affine) ==
    Bind(resample_img(real_nii, base_affine, <<>>, Interpolation("real")),
    LAMBDA real_rot :
        IF ~real_rot.ok
        THEN AxialFailed(real_rot.error, base_affine,
                         <<Logged("real", real_rot)>>)
        ELSE
        \* imag_nii has real_nii's grid: the same outcome
        Bind(resample_img(real_nii, base_affine, <<>>, Interpolation("imag")),
        LAMBDA imag_rot :
        Bind(IF has_mask
             THEN resample_img(mask_nii, base_affine, <<>>,
                               Interpolation("mask"))
             ELSE Resampled(NoVol, ""),
        LAMBDA mask_rot :
            IF ~mask_rot.ok
            THEN AxialFailed(mask_rot.error, base_affine,
                             <<Logged("real", real_rot),
                               Logged("imag", imag_rot),
                               Logged("mask", mask_rot)>>)
            ELSE
            LET log == <<Logged("real", real_rot), Logged("imag", imag_rot)>>
                       \o (IF has_mask THEN <<Logged("mask", mask_rot)>>
                           ELSE <<>>)
            IN
            \* lines 42-43: the headers of the loaded volumes
            Bind(Nifti1Image("intensity", real_rot.img.shape,
                             real_rot.img.affine, <<>>, mag_nii),
            LAMBDA mag_rot_nii :
            Bind(Nifti1Image("intensity", real_rot.img.shape,
                             real_rot.img.affine, <<>>, pha_nii),
            LAMBDA pha_rot_nii :
                IF ~mag_rot_nii.ok
                THEN AxialFailed(mag_rot_nii.error, base_affine, log)
                ELSE IF ~pha_rot_nii.ok
                THEN AxialFailed(pha_rot_nii.error, base_affine, log)
                ELSE [ok |-> TRUE, error |-> "", base_affine |-> base_affine,
                      interp |-> log,
                      mag |-> mag_rot_nii.img, pha |-> pha_rot_nii.img,
                      mask |-> mask_rot.img, has_mask |-> has_mask])))))

\* resample_to_axial(mag_nii, pha_nii, mask_nii); has_mask is the
\* truthiness of mask_nii.  interp lists the resample_img calls made.
resample_to_axial(mag_nii, pha_nii, mask_nii, has_mask) ==
    Bind(BaseAffine(mag_nii),
    LAMBDA base_affine :
    Bind(Broadcast(mag_nii.shape, pha_nii.shape),
    LAMBDA cshape :
        IF cshape = <<>>
        THEN AxialFailed("ValueError", base_affine, <<>>)
        \* lines 23-26: the phase's affine with a copy of the
        \* magnitude's header; no resample_img call has been made when
        \* the constructor raises
        ELSE Bind(Nifti1Image("intensity", cshape, pha_nii.affine, <<>>,
                              mag_nii),
             LAMBDA real_nii :
                 IF ~real_nii.ok
                 THEN AxialFailed(real_nii.error, base_affine, <<>>)
                 ELSE AxialResampled(mag_nii, pha_nii, real_nii.img,
                                     mask_nii, has_mask, base_affine))))

---------------------------------------------------------------------------
(* resample_files and resample_like on a file system                       *)

\* What nib.save writes of an image: its header and its data. The affine
\* of the file is the header's sform.
Stored(vol) == [vol EXCEPT !.affine = vol.sform]

\* The file system with one more file written (nib.save).
Save(d, path, vol) ==
    [p \in DOMAIN d \cup {path} |-> IF p = path THEN Stored(vol) ELSE d[p]]

\* The header check nibabel runs on every header it reads (check_fix):
\* a voxel size stored as 0 is set to 1, a negative one to its absolute
\* value.
ChkPixdims(vol) ==
    [vol EXCEPT !.zooms =
        [i \in DOMAIN vol.zooms |->
            IF vol.zooms[i] = 0 THEN 1 ELSE Abs(vol.zooms[i])]]

\* nib.load: the image of the file, its header checked.
Load(d, file) == ChkPixdims(d[Abspath(file)])

\* The path as the system walks it: every '..' is taken from a directory
\* that exists.
RECURSIVE Walkable(_, _, _)
Walkable(dirs, comps, n) ==
    \/ n > Len(comps)
    \/ /\ comps[n] = <<".", ".">> =>
              LET above == JoinSlash(SubSeq(comps, 1, n - 1))
              IN  Normpath(IF above = <<>> THEN <<"/">> ELSE above) \in dirs
       /\ Walkable(dirs, comps, n + 1)

\* nib.load finds a file at the path (os.stat succeeds on a regular file).
Loadable(d, file) ==
    /\ Walkable(Dirs(DOMAIN d), Components(PathJoin(Cwd, file)), 1)
    /\ Abspath(file) \in DOMAIN d

\* The error of nib.load on a path that names no file: a directory holds
\* no image, anything else is reported as not found.
LoadError(d, file) ==
    IF /\ Walkable(Dirs(DOMAIN d), Components(PathJoin(Cwd, file)), 1)
       /\ Abspath(file) \in Dirs(DOMAIN d)
    THEN "ImageFileError"
    ELSE "FileNotFoundError"

\* The first of the files, in the order of the loads, that cannot be
\* loaded; <<>> when all can.
FirstUnloadable(d, files) ==
    IF \A i \in DOMAIN files : Loadable(d, files[i]) THEN <<>>
    ELSE files[CHOOSE i \in DOMAIN files :
                   /\ ~Loadable(d, files[i])
                   /\ \A j \in 1..(i - 1) : Loadable(d, files[j])]

\* Python truthiness of obliquity_threshold; <<>> stands for None.
Truthy(thr) == thr # <<>> /\ thr[1] # 0

\* The square of a threshold given in whole degrees (up to 107), in
\* units of 1e-7 degree squared.
ThresholdSq(thr) == Square(10000000 * thr[1])

\* A faulty variant of the comparison of line 61: the test is inverted.
NormBelow_Inverted(normsq, thr) ==
    thr[1] > 0 /\ ~normsq.nan /\ Less(ThresholdSq(thr), normsq.lo)

\* obliquity_norm < obliquity_threshold: never for a threshold that is not
\* positive, never for nan; otherwise as the bounds of the norm decide. Of
\* a norm whose bounds have the threshold between them nothing is said:
\* the operator has no value.
NormBelow(normsq, thr) ==
    /\ thr[1] > 0
    /\ ~normsq.nan
    /\ CHOOSE below \in BOOLEAN :
           IF below THEN Less(normsq.hi, ThresholdSq(thr))
           ELSE Less(ThresholdSq(thr), normsq.lo)

\* A faulty variant of the gate: a threshold of 0 counts as a threshold and
\* a norm equal to the threshold skips.
Gate_NonStrict(mag_nii, obliquity_threshold) ==
    /\ obliquity_threshold # <<>>
    /\ ~Less(ThresholdSq(obliquity_threshold),
             ObliquityNormSq(mag_nii.affine).lo)

\* Lines 57-62: the obliquity gate; TRUE when resampling is skipped.
Gate(mag_nii, obliquity_threshold) ==
    /\ Truthy(obliquity_threshold)
    /\ NormBelow(ObliquityNormSq(mag_nii.affine), obliquity_threshold)

\* What a call leaves behind when it raises.
Raised(op, args, thr, err, invoked, base, log, written) ==
    [op |-> op, args |-> args, thr |-> thr, outcome |-> "raised",
     error |-> err, result |-> <<>>, invoked |-> invoked,
     base_affine |-> base, interp |-> log, written |-> written]

Returned(op, args, thr, result, invoked, base, log, written) ==
    [op |-> op, args |-> args, thr |-> thr, outcome |-> "returned",
     error |-> "", result |-> result, invoked |-> invoked,
     base_affine |-> base, interp |-> log, written |-> written]

\* Lines 68-88: the saves of resample_files, after resample_to_axial
\* returned r.
SaveResults(d, args, thr, r) ==
    LET op == "resample_files"
        mag_resampled_fname == ResampledFname(args[1])
        pha_resampled_fname == ResampledFname(args[2])
        w2 == <<mag_resampled_fname, pha_resampled_fname>>
    IN  IF ~CanSave(mag_resampled_fname, DOMAIN d)
        THEN [call |-> Raised(op, args, thr,
                              SaveError(mag_resampled_fname, DOMAIN d), TRUE,
                              r.base_affine, r.interp, <<>>),
              disk |-> d]
        ELSE
        Bind(Save(d, mag_resampled_fname, r.mag),
        LAMBDA d1 :
            IF ~CanSave(pha_resampled_fname, DOMAIN d1)
            THEN [call |-> Raised(op, args, thr,
                                  SaveError(pha_resampled_fname, DOMAIN d1),
                                  TRUE, r.base_affine, r.interp,
                                  <<mag_resampled_fname>>),
                  disk |-> d1]
            ELSE
            Bind(Save(d1, pha_resampled_fname, r.pha),
            LAMBDA d2 :
                IF ~r.has_mask
                THEN [call |-> Returned(op, args, thr,
                                        <<mag_resampled_fname,
                                          pha_resampled_fname,
                                          <<"placeholder">> >>,
                                        TRUE, r.base_affine, r.interp, w2),
                      disk |-> d2]
                ELSE
                LET mask_resampled_fname == ResampledFname(args[3])
                IN  IF ~CanSave(mask_resampled_fname, DOMAIN d2)
                    THEN [call |-> Raised(op, args, thr,
                                          SaveError(mask_resampled_fname,
                                                    DOMAIN d2),
                                          TRUE, r.base_affine, r.interp, w2),
                          disk |-> d2]
                    ELSE [call |-> Returned(op, args, thr,
                                            <<mag_resampled_fname,
                                              pha_resampled_fname,
                                              mask_resampled_fname>>,
                                            TRUE, r.base_affine, r.interp,
                                            Append(w2, mask_resampled_fname)),
                          disk |-> Save(d2, mask_resampled_fname, r.mask)]))

\* resample_files(mag_file, pha_file, mask_file, obliquity_threshold) on
\* file system d: the call's record and the file system it leaves.
resample_files(d, mag_file, pha_file, mask_file, obliquity_threshold) ==
    LET op == "resample_files"
        args == <<mag_file, pha_file, mask_file>>
        thr == obliquity_threshold
        has_mask == mask_file # <<>>
        \* lines 50-55: the three loads, before the obliquity is looked at
        unloadable == FirstUnloadable(d, <<mag_file, pha_file>>
                          \o (IF has_mask THEN <<mask_file>> ELSE <<>>))
    IN  IF unloadable # <<>>
        THEN [call |-> Raised(op, args, thr, LoadError(d, unloadable), FALSE,
                              <<>>, <<>>, <<>>),
              disk |-> d]
        ELSE
        Bind(Load(d, mag_file),
        LAMBDA mag_nii :
            IF Gate(mag_nii, obliquity_threshold)
            THEN [call |-> Returned(op, args, thr, args, FALSE, <<>>, <<>>,
                                    <<>>),
                  disk |-> d]
            ELSE
            Bind(resample_to_axial(
                     mag_nii, Load(d, pha_file),
                     IF has_mask THEN Load(d, mask_file) ELSE NoVol,
                     has_mask),
            LAMBDA r :
                IF ~r.ok
                THEN [call |-> Raised(op, args, thr, r.error, TRUE,
                                      r.base_affine, r.interp, <<>>),
                      disk |-> d]
                ELSE SaveResults(d, args, thr, r)))

\* A faulty variant of the comparison of line 94: only the 3x3 block of the
\* affines is compared, the translation is not.
SameAffine_LinearPart(in_nii, in_like_nii) ==
    \A i, j \in Idx3 : in_nii.affine[i][j] = in_like_nii.affine[i][j]

\* Line 94: np.array_equal(in_nii.affine, in_like_nii.affine)
SameAffine(in_nii, in_like_nii) == in_nii.affine = in_like_nii.affine

\* resample_like(in_file, in_like, interpolation) on file system d.
resample_like(d, in_file, in_like, interpolation) ==
    LET op == "resample_like"
        args == <<in_file, in_like>>
        unloadable == FirstUnloadable(d, args)
    IN  IF unloadable # <<>>
        THEN [call |-> Raised(op, args, <<>>, LoadError(d, unloadable), FALSE,
                              <<>>, <<>>, <<>>),
              disk |-> d]
        ELSE
        Bind(<<Load(d, in_file), Load(d, in_like)>>,
        LAMBDA nii :
            IF SameAffine(nii[1], nii[2])
            THEN [call |-> Returned(op, args, <<>>, <<in_file>>, FALSE, <<>>,
                                    <<>>, <<>>),
                  disk |-> d]
            ELSE
            Bind(resample_img(nii[1], nii[2].affine, nii[2].shape,
                              interpolation),
            LAMBDA r :
                LET in_resampled_fname == ResampledFname(in_file)
                    log == <<Logged("in_file", r)>>
                IN  IF ~r.ok
                    THEN [call |-> Raised(op, args, <<>>, r.error, TRUE, <<>>,
                                          log, <<>>),
                          disk |-> d]
                    ELSE IF ~CanSave(in_resampled_fname, DOMAIN d)
                    THEN [call |-> Raised(op, args, <<>>,
                                          SaveError(in_resampled_fname,
                                                    DOMAIN d),
                                          TRUE, <<>>, log, <<>>),
                          disk |-> d]
                    ELSE [call |-> Returned(op, args, <<>>,
                                            <<in_resampled_fname>>, TRUE, <<>>,
                                            log, <<in_resampled_fname>>),
                          disk |-> Save(d, in_resampled_fname, r.img)]))

---------------------------------------------------------------------------
(* The files and the calls of a behaviour                                  *)

\* An axis-aligned affine with diagonal g (mm, signed) and translation t
\* (held doubled).
Axial(g, t) ==
    << <<Real(g[1]), 0, 0, t[1]>>, <<0, Real(g[2]), 0, t[2]>>,
       <<0, 0, Real(g[3]), t[3]>>, <<0, 0, 0, Real(1)>> >>

\* A header: shape, affine; the zooms are those of the affine.
Header(shape, affine) ==
    [shape |-> shape, zooms |-> ZoomsOf(affine), affine |-> affine]

\* A header whose zooms (pixdim) are not those of its affine (sform): the
\* two are separate fields of a file.
HeaderWithZooms(shape, zooms, affine) ==
    [shape |-> shape, zooms |-> zooms, affine |-> affine]

\* The acquisitions a scan can have.
ScanPool ==
    { \* axial, 2 mm, centred or shifted along the first axis
      Header(<<2, 2, 2>>, Axial(<<2, 2, 2>>, <<8 * k - 4, -4, -4>>)) :
          k \in 0..MaxShift }
    \cup
    { \* axial, first axis flipped
      Header(<<2, 2, 1>>, Axial(<<-2, 2, 2>>, <<4, -4, -2>>)),
      \* axial, odd extents, two axes flipped
      Header(<<3, 2, 1>>, Axial(<<-1, -1, 3>>, <<3, 2, -3>>)),
      \* rotated about the third axis by atan(3/4), 5 x 5 x 1 mm
      Header(<<2, 2, 1>>,
             << <<8, -6, 0, -2>>, <<6, 8, 0, -14>>, <<0, 0, 2, -1>>,
                <<0, 0, 0, 2>> >>),
      \* axes permuted (a sagittal acquisition), 2 mm
      Header(<<2, 2, 2>>,
             << <<0, 0, 4, -4>>, <<4, 0, 0, -4>>, <<0, 4, 0, -4>>,
                <<0, 0, 0, 2>> >>),
      \* axial, field of view away from the scanner's origin
      Header(<<2, 2, 2>>, Axial(<<2, 2, 2>>, <<-20, -20, -20>>)),
      \* axial, 2 mm by the affine, 1 mm by the zooms of the header
      HeaderWithZooms(<<2, 2, 1>>, <<1, 1, 1>>,
                      Axial(<<2, 2, 2>>, <<-4, -4, -2>>)),
      \* axial, with a corner at -100000 mm: half a millimetre is within
      \* the relative tolerance of np.allclose there
      Header(<<2, 2, 2>>, Axial(<<2, 2, 2>>, <<-200000, -4, -4>>)),
      \* a header whose affine has lost its third column
      HeaderWithZooms(<<2, 2, 1>>, <<2, 2, 2>>,
                      << <<4, 0, 0, -4>>, <<0, 4, 0, -4>>, <<0, 0, 0, -2>>,
                         <<0, 0, 0, 2>> >>),
      \* axial, 2 mm by the affine, with a negative and a zero voxel size
      \* stored in the header
      HeaderWithZooms(<<2, 2, 1>>, <<2, -2, 0>>,
                      Axial(<<2, 2, 2>>, <<-4, -4, -2>>)) }

\* The label patterns a mask can hold.
MaskPool == {"ones", "binary", "parcels"}

MaskValue(pattern, k) ==
    IF pattern = "ones" THEN 1
    ELSE IF pattern = "binary" THEN (k[1] + k[2] + k[3]) % 2
    ELSE 1 + ((k[1] + k[2]) % MaxLabel)

Intensity(h) ==
    [kind |-> "intensity", shape |-> h.shape, zooms |-> h.zooms,
     sform |-> h.affine, affine |-> h.affine, data |-> <<>>]

Label(h, pattern) ==
    [kind |-> "label", shape |-> h.shape, zooms |-> h.zooms,
     sform |-> h.affine, affine |-> h.affine,
     data |-> [k \in Grid(h.shape) |-> MaskValue(pattern, k)]]

\* The files a behaviour starts with: a scan's magnitude, phase and mask
\* in /d, a magnitude under a directory with a dot in its name, and what an
\* earlier run left in the working directory.
MagFile == <<"/", "d", "/", "m", ".", "n">>

PhaFile == <<"/", "d", "/", "p", ".", "n", ".", "g">>

MaskFile == <<"/", "d", "/", "k", ".", "n">>

DottedDirFile == <<"/", "e", ".", "x", "/", "q", ".", "n">>

LeftoverFile == <<"/", "w", "/", "m", "_resampled", ".", "n">>

NestedLeftoverFile ==
    <<"/", "w", "/", "m", "_resampled", ".", "x", "/", "m", ".", "n">>

\* The scan's mask in a copy moved by half a millimetre along the first
\* axis.
ShiftedFile == <<"/", "d", "/", "m", ".", "x">>

\* A sagittal acquisition (axes permuted), whatever the scan in /d.
SagittalFile == <<"/", "d", "/", "s", ".", "n">>

\* A path at which there is no file.
MissingFile == <<"/", "d", "/", "z", ".", "n">>

InitialDisk(scan, pattern) ==
    (MagFile :> Intensity(scan))
    @@ (PhaFile :> Intensity(scan))
    @@ (MaskFile :> Label(scan, pattern))
    @@ (ShiftedFile :>
            Label(HeaderWithZooms(
                      scan.shape, scan.zooms,
                      [scan.affine EXCEPT ![1][4] = scan.affine[1][4] - 1]),
                  pattern))
    @@ (DottedDirFile :>
            Intensity(Header(<<2, 2, 1>>, Axial(<<2, 2, 2>>, <<-4, -4, -4>>))))
    @@ (LeftoverFile :>
            Intensity(Header(<<3, 2, 2>>, Axial(<<2, 2, 2>>, <<-6, -4, -4>>))))
    @@ (NestedLeftoverFile :>
            Intensity(Header(<<2, 2, 1>>, Axial(<<2, 2, 2>>, <<-4, -4, -2>>))))
    @@ (SagittalFile :>
            Intensity(Header(<<2, 2, 1>>,
                             << <<0, 0, 4, -4>>, <<4, 0, 0, -4>>,
                                <<0, 4, 0, -2>>, <<0, 0, 0, 2>> >>)))

\* The thresholds a caller passes: none, 0, the pipeline's 10 degrees, 60.
Thresholds == {<<>>, <<0>>, <<10>>, <<60>>}

\* disk: the file system; call: the last call and its outcome; pre: the
\* file system as that call found it; par: the invocations that run
\* concurrently, each with its working directory and its progress; vox: one
\* voxel on its way through the decomposition and recomposition of
\* resample_to_axial; cli: the command-line options on their way through
\* process_args; logger: the logger named 'main' and what was logged; wf: the
\* construction of the workflows over the subjects, sessions and runs found.
VARIABLES disk, pre, call, par, vox, cli, logger, wf

vars == <<disk, pre, call, par, vox, cli, logger, wf>>

\* No voxel followed; no command line.
NoVox == <<>>

NoCli == <<>>

\* No logger followed; no workflow under construction.
NoLogger == <<>>

NoWf == <<>>

\* No concurrent invocations.
NoPar == <<>>

NoCall ==
    [op |-> "none", args |-> <<>>, thr |-> <<>>, outcome |-> "none",
     error |-> "", result |-> <<>>, invoked |-> FALSE, base_affine |-> <<>>,
     interp |-> <<>>, written |-> <<>>]

Init ==
    /\ \E scan \in ScanPool, pattern \in MaskPool :
           disk = InitialDisk(scan, pattern)
    /\ pre = disk
    /\ call = NoCall
    /\ par = NoPar
    /\ vox = NoVox
    /\ cli = NoCli
    /\ logger = NoLogger
    /\ wf = NoWf

FilesOfKind(d, kind) == {f \in DOMAIN d : d[f].kind = kind}

\* A behaviour is one call on a file system.  The two functions take
\* everything from their arguments and the files they load; what an earlier
\* call did shows only in the files it left (LeftoverFile,
\* NestedLeftoverFile).

\* One call of resample_files (AxialSamplingInterface._run_interface).
ResampleFiles(mag_file, pha_file, mask_file, thr) ==
    /\ call = NoCall
    /\ \E r \in {resample_files(disk, mag_file, pha_file, mask_file, thr)} :
           /\ call' = r.call
           /\ disk' = r.disk
    /\ pre' = disk
    /\ UNCHANGED <<par, vox, cli, logger, wf>>

\* One call of resample_like (ResampleLikeInterface._run_interface).
ResampleLike(in_file, in_like, interpolation) ==
    /\ call = NoCall
    /\ \E r \in {resample_like(disk, in_file, in_like, interpolation)} :
           /\ call' = r.call
           /\ disk' = r.disk
    /\ pre' = disk
    /\ UNCHANGED <<par, vox, cli, logger, wf>>

Next ==
    \/ \E mag_file, pha_file \in
              FilesOfKind(disk, "intensity") \cup {MissingFile},
          mask_file \in FilesOfKind(disk, "label") \cup {<<>>, MissingFile},
          thr \in Thresholds :
           ResampleFiles(mag_file, pha_file, mask_file, thr)
    \/ \E in_file, in_like \in DOMAIN disk \cup {MissingFile},
          interpolation \in {"continuous", "nearest"} :
           ResampleLike(in_file, in_like, interpolation)

Spec == Init /\ [][Next]_vars

---------------------------------------------------------------------------
(* The last call, as the properties below read it                          *)

IsFiles == call.op = "resample_files"

IsLike == call.op = "resample_like"

InSeq(x, s) == \E i \in DOMAIN s : s[i] = x

\* Every file the last call was given was there to be loaded.
Loaded ==
    \A i \in DOMAIN call.args :
        call.args[i] # <<>> => Loadable(pre, call.args[i])

\* The volume an argument of the last call named when the call began.
ArgVol(i) == Load(pre, call.args[i])

\* The obliquity norm of the last call's magnitude is strictly less than
\* the threshold the call was given.
NormStrictlyBelow ==
    /\ call.thr # <<>>
    /\ call.thr[1] > 0
    /\ ~ObliquityNormSq(ArgVol(1).affine).nan
    /\ Less(ObliquityNormSq(ArgVol(1).affine).hi, ThresholdSq(call.thr))

\* The 3x3 block is diagonal with positive entries.
DiagonalPositive(a) ==
    \A i, j \in Idx3 : IF i = j THEN a[i][j] > 0 ELSE a[i][j] = 0

\* The volume a returned reference names after the call.
ResultVol(i) == Load(disk, call.result[i])

\* The input paths of the last call of resample_files.
InputPaths ==
    {Abspath(call.args[i]) : i \in {i \in 1..3 : call.args[i] # <<>>}}

---------------------------------------------------------------------------
(* Properties                                                              *)

\* C1: when resample_files is called with a threshold and the obliquity
\* norm of the magnitude affine is strictly below it, the call returns its
\* three input references unchanged, resample_to_axial is not invoked and
\* nothing is written.
C1_SkipReturnsInputs ==
    (IsFiles /\ Loaded /\ NormStrictlyBelow) =>
        /\ call.outcome = "returned"
        /\ call.result = call.args
        /\ ~call.invoked
        /\ call.interp = <<>>
        /\ call.written = <<>>
        /\ disk = pre

\* A slightly oblique magnitude (norm > 0) under a larger threshold, with a
\* mask, has been passed through.
C1_Witness ==
    /\ IsFiles
    /\ Loaded
    /\ NormStrictlyBelow
    /\ Less(Square(0), ObliquityNormSq(ArgVol(1).affine).lo)
    /\ call.args[3] # <<>>
    /\ call.result = call.args

\* C2: when resample_files is called without a threshold, or the norm is
\* equal to or above the threshold, resample_to_axial is invoked whatever
\* the input affine, and the magnitude and phase references a returning
\* call gives are the *_resampled names, files this call has written on the
\* target grid, not the inputs passed through.
C2_ProceedReturnsResampled ==
    (IsFiles /\ Loaded /\ ~NormStrictlyBelow) =>
        /\ call.invoked
        /\ call.outcome = "returned" =>
               /\ call.result[1] = ResampledFname(call.args[1])
               /\ call.result[2] = ResampledFname(call.args[2])
               /\ \A i \in 1..2 :
                      /\ InSeq(call.result[i], call.written)
                      /\ call.result[i] \in DOMAIN disk
                      /\ ResultVol(i).affine = call.base_affine

\* An oblique magnitude whose norm is at or above a positive threshold has
\* been resampled and the call has returned.
C2_Witness ==
    /\ IsFiles
    /\ Loaded
    /\ call.thr # <<>>
    /\ call.thr[1] > 0
    /\ Less(ThresholdSq(call.thr), ObliquityNormSq(ArgVol(1).affine).lo)
    /\ call.outcome = "returned"
    /\ call.invoked

\* C3: for a magnitude affine whose 3x3 block is diagonal with positive
\* entries the obliquity norm is exactly 0, so with any positive threshold
\* resample_files skips resampling and returns its inputs.
C3_DiagonalSkips ==
    (IsFiles /\ Loaded /\ DiagonalPositive(ArgVol(1).affine)) =>
        /\ ObliquityNormSq(ArgVol(1).affine) =
               [nan |-> FALSE, lo |-> Square(0), hi |-> Square(0)]
        /\ (call.thr # <<>> /\ call.thr[1] > 0) =>
               /\ call.outcome = "returned"
               /\ call.result = call.args
               /\ ~call.invoked

\* A diagonal positive magnitude under the pipeline's threshold of 10 has
\* been passed through.
C3_Witness ==
    /\ IsFiles
    /\ Loaded
    /\ DiagonalPositive(ArgVol(1).affine)
    /\ call.thr = <<10>>
    /\ call.result = call.args

\* C4: the target affine T that resample_to_axial builds from a magnitude
\* volume with affine A, voxel sizes s and shape d has T[i][i] =
\* s_i * sign(A[i][i]), zero off-diagonal entries in the 3x3 block,
\* T[3][3] = 1, last row (0, 0, 0, 1) and T[i][3] =
\* -sign(A[i][i]) * s_i * d_i / 2 (entries are held doubled).
C4_BaseAffineClosedForm ==
    (IsFiles /\ call.invoked) =>
        LET T == call.base_affine
            A == ArgVol(1).affine
            s == ArgVol(1).zooms
            d == ArgVol(1).shape
        IN  /\ \A i \in Idx3 :
                   /\ T[i][i] = Real(s[i]) * Sign(A[i][i])
                   /\ \A j \in Idx3 \ {i} : T[i][j] = 0
                   /\ 2 * T[i][4] = -Sign(A[i][i]) * Real(s[i] * d[i])
            /\ T[4] = <<0, 0, 0, Real(1)>>

\* A target affine has been built from a magnitude with a flipped axis and
\* an odd extent.
C4_Witness ==
    /\ IsFiles
    /\ call.invoked
    /\ \E i \in Idx3 : ArgVol(1).affine[i][i] < 0
    /\ \E i \in Idx3 : ArgVol(1).zooms[i] * ArgVol(1).shape[i] % 2 = 1

\* C5 (as the specification states it): after any call of resample_files
\* no input path has been written to: the files at the input paths are
\* what they were before the call.
C5_InputsUntouched ==
    (IsFiles /\ Loaded) =>
        \A f \in InputPaths :
            /\ ~InSeq(f, call.written)
            /\ disk[f] = pre[f]

\* C6 (as the specification states it): each voxel value of the mask that
\* resample_files writes is a value that occurs in the source mask.
C6_NoNewLabel ==
    (IsFiles /\ call.outcome = "returned" /\ call.args[3] # <<>>) =>
        Labels(ResultVol(3)) \subseteq Labels(ArgVol(3))

\* C6 (amended): each voxel value of the mask that resample_files writes is
\* a value that occurs in the source mask or the fill value 0, which the
\* target voxels outside the source's support receive.
C6_LabelsOrFill ==
    (IsFiles /\ call.outcome = "returned" /\ call.args[3] # <<>>) =>
        /\ ResultVol(3).kind = "label"
        /\ Labels(ResultVol(3)) \subseteq Labels(ArgVol(3)) \cup {0}

\* A mask without the value 0 has been resampled onto a grid that reaches
\* outside its support: the written mask holds 0 next to the source's
\* labels.
C6_Witness ==
    /\ IsFiles
    /\ call.outcome = "returned"
    /\ call.args[3] # <<>>
    /\ 0 \notin Labels(ArgVol(3))
    /\ 0 \in Labels(ResultVol(3))
    /\ Labels(ResultVol(3)) \cap Labels(ArgVol(3)) # {}

\* C7: in every run of resample_to_axial the real and the imaginary part
\* are resampled with continuous interpolation and the mask with nearest-
\* neighbour interpolation; a returning call with a mask has resampled all
\* three.
C7_InterpolationPerChannel ==
    IsFiles =>
        /\ \A i \in DOMAIN call.interp :
               /\ call.interp[i].channel \in {"real", "imag"} =>
                      call.interp[i].interpolation = "continuous"
               /\ call.interp[i].channel = "mask" =>
                      call.interp[i].interpolation = "nearest"
        /\ call.outcome = "returned" /\ call.invoked =>
               /\ Len(call.interp) >= 2
               /\ call.interp[1].channel = "real"
               /\ call.interp[2].channel = "imag"
               /\ call.args[3] # <<>> =>
                      /\ Len(call.interp) = 3
                      /\ call.interp[3].channel = "mask"
                      /\ ResultVol(3).kind = "label"

\* Magnitude, phase and a mask have been resampled by one call.
C7_Witness ==
    /\ IsFiles
    /\ call.outcome = "returned"
    /\ Len(call.interp) = 3
    /\ call.interp[3].channel = "mask"

\* C8 (as the specification states it): the volume that the reference
\* resample_like returns names has the affine and the shape of the
\* reference volume.
C8_LikeReference ==
    (IsLike /\ call.outcome = "returned") =>
        /\ ResultVol(1).affine = ArgVol(2).affine
        /\ ResultVol(1).shape = ArgVol(2).shape

\* C9: resample_like returns the very source reference, without resampling
\* or writing, exactly when the source and reference affines are equal in
\* every element; when they differ it calls the resampler, and a returning
\* call gives the *_resampled file it has written, with the reference's
\* shape and an affine the reference's is np.allclose to.
C9_FastPathIffEqual ==
    (IsLike /\ Loaded) =>
        IF ArgVol(1).affine = ArgVol(2).affine
        THEN /\ call.outcome = "returned"
             /\ call.result = <<call.args[1]>>
             /\ ~call.invoked
             /\ call.written = <<>>
             /\ disk = pre
        ELSE /\ call.invoked
             /\ call.outcome = "returned" =>
                    /\ call.result = <<ResampledFname(call.args[1])>>
                    /\ call.written = call.result
                    /\ AllClose(ArgVol(2).affine, ResultVol(1).affine)
                    /\ ResultVol(1).shape = ArgVol(2).shape

\* The number of elements in which two affines differ.
AffineDifference(a, b) ==
    Cardinality({ij \in (1..4) \X (1..4) : a[ij[1]][ij[2]] # b[ij[1]][ij[2]]})

\* A source whose affine differs from the reference's in a single element
\* has been resampled into a new file.
C9_Witness ==
    /\ IsLike
    /\ Loaded
    /\ AffineDifference(ArgVol(1).affine, ArgVol(2).affine) = 1
    /\ call.outcome = "returned"
    /\ call.written = <<ResampledFname(call.args[1])>>

\* C10 (as the specification states it): a call of resample_files whose
\* magnitude and phase volumes differ in shape fails with an error and
\* writes no output.
C10_ShapeMismatchFails ==
    (IsFiles /\ Loaded /\ ArgVol(1).shape # ArgVol(2).shape) =>
        /\ call.outcome = "raised"
        /\ call.written = <<>>
        /\ disk = pre

\* The voxel spacing resample_to_axial reads from the magnitude header
\* (line 10) contains a value that is not positive.
NonPositiveSpacing == \E i \in Idx3 : ArgVol(1).zooms[i] <= 0

\* resample_to_axial has been invoked and the target affine it derived is
\* singular, or the voxel spacing it read is not positive.
SingularGeometry ==
    /\ IsFiles
    /\ call.invoked
    /\ (Det3(call.base_affine) = 0 \/ NonPositiveSpacing)

\* The invocation failed before anything was interpolated and left no
\* output: at most the first resample_img call was made, which raised, and
\* nothing was returned or written.
FailedBeforeInterpolation ==
    /\ call.outcome = "raised"
    /\ Len(call.interp) <= 1
    /\ call.result = <<>>
    /\ call.written = <<>>
    /\ disk = pre

\* C11 (as the specification states it): whenever the target affine that
\* resample_to_axial derives is singular or the voxel spacing contains a
\* value that is not positive, the invocation fails with the geometry
\* error (numpy's singular-matrix LinAlgError) before anything is
\* interpolated, and no output volume is produced.
C11_SingularTargetFails ==
    SingularGeometry =>
        /\ FailedBeforeInterpolation
        /\ call.error = "LinAlgError"

\* C11 (amended): whenever the target affine that resample_to_axial
\* derives is singular or the voxel spacing contains a value that is not
\* positive, the invocation fails before anything is interpolated, and no
\* output volume is produced; the error is the geometry error (LinAlgError)
\* unless the magnitude and phase shapes cannot be broadcast together, in
\* which case the decomposition of line 21 has already raised ValueError.
C11_SingularTargetFailsOrShapes ==
    SingularGeometry =>
        /\ FailedBeforeInterpolation
        /\ call.error =
               IF Broadcast(ArgVol(1).shape, ArgVol(2).shape) = <<>>
               THEN "ValueError" ELSE "LinAlgError"

\* A magnitude with permuted axes, whose affine is invertible and whose
\* target affine is singular, has been given to resample_to_axial together
\* with a mask, and the first resample_img call has raised LinAlgError.
C11_Witness ==
    /\ SingularGeometry
    /\ Det3(ArgVol(1).affine) # 0
    /\ call.args[3] # <<>>
    /\ call.outcome = "raised"
    /\ call.error = "LinAlgError"
    /\ Len(call.interp) = 1
    /\ call.interp[1].channel = "real"

\* C12 (as the specification states it): when a call of resample_files
\* fails, none of its output files exists as a result of the call: nothing
\* has been written and the file system is as the call found it.
C12_NoPartialOutput ==
    (IsFiles /\ call.outcome = "raised") =>
        /\ call.written = <<>>
        /\ disk = pre

---------------------------------------------------------------------------
(* Concurrent invocations: each MapNode iteration is a process with its    *)
(* own working directory; the processes share the file system.             *)

\* The working directories of the processes: siblings, as the directories
\* nipype makes for the iterations of a MapNode are.
WorkDirs == {<<"/", "w">>, <<"/", "v">>}

\* Two runs, with the same file names in the directories /d and /f.
ParMagD == <<"/", "d", "/", "m", ".", "n">>

ParMagF == <<"/", "f", "/", "m", ".", "n">>

ParPhaD == <<"/", "d", "/", "p", ".", "n", ".", "g">>

ParPhaF == <<"/", "f", "/", "p", ".", "n", ".", "g">>

ParMaskD == <<"/", "d", "/", "k", ".", "n">>

\* Two more magnitudes, the files /e/c/m.n and /k/c/m.n, each named by a
\* path that goes through a directory with a dot in its name and back up.
ParMagE ==
    <<"/", "e", "/", "h", "/", "f", ".", "g", "/", ".", ".", "/", ".", ".",
      "/", "c", "/", "m", ".", "n">>

ParMagK ==
    <<"/", "k", "/", "h", "/", "f", ".", "g", "/", ".", ".", "/", ".", ".",
      "/", "c", "/", "m", ".", "n">>

\* The run in /d is oblique, the run in /f is axial with a flipped axis.
ParHeaderD ==
    Header(<<2, 2, 1>>,
           << <<8, -6, 0, -2>>, <<6, 8, 0, -14>>, <<0, 0, 2, -1>>,
              <<0, 0, 0, 2>> >>)

ParHeaderF == Header(<<2, 2, 1>>, Axial(<<-2, 2, 2>>, <<4, -4, -2>>))

\* The files of the runs, and one file in each of the directories
\* /e/h/f.g, /k/h/f.g and /c, which therefore exist.
ParDisk ==
    (ParMagD :> Intensity(ParHeaderD))
    @@ (ParPhaD :> Intensity(ParHeaderD))
    @@ (ParMaskD :> Label(ParHeaderD, "ones"))
    @@ (ParMagF :> Intensity(ParHeaderF))
    @@ (ParPhaF :> Intensity(ParHeaderF))
    @@ (Abspath(ParMagE) :> Intensity(ParHeaderD))
    @@ (Abspath(ParMagK) :> Intensity(ParHeaderF))
    @@ (<<"/", "e", "/", "h", "/", "f", ".", "g", "/", "r", ".", "n">>
            :> Intensity(ParHeaderF))
    @@ (<<"/", "k", "/", "h", "/", "f", ".", "g", "/", "r", ".", "n">>
            :> Intensity(ParHeaderF))
    @@ (<<"/", "c", "/", "r", ".", "n">> :> Intensity(ParHeaderF))

\* An invocation that has not begun.
Invocation(op, cwd, args, thr) ==
    [op |-> op, cwd |-> cwd, args |-> args, thr |-> thr, pc |-> "start",
     pending |-> <<>>, written |-> <<>>, error |-> ""]

\* The invocations of resample_files and of resample_like considered.
Invocations ==
    { Invocation("resample_files", cwd, <<mag_file, pha_file, mask_file>>,
                 thr) :
          cwd \in WorkDirs,
          mag_file \in {ParMagD, ParMagF, ParMagE, ParMagK},
          pha_file \in {ParPhaD, ParPhaF}, mask_file \in {<<>>, ParMaskD},
          thr \in {<<>>, <<10>>} }
    \cup
    { Invocation("resample_like", cwd, <<in_file, in_like>>, <<>>) :
          cwd \in WorkDirs,
          in_file \in {ParMagD, ParMagF, ParMagE, ParMagK},
          in_like \in {ParPhaD, ParPhaF} }

\* Two invocations, each in a working directory of its own.
ParInit ==
    /\ disk = ParDisk
    /\ pre = disk
    /\ call = NoCall
    /\ par \in [1..2 -> Invocations]
    /\ par[1].cwd # par[2].cwd
    /\ vox = NoVox
    /\ cli = NoCli
    /\ logger = NoLogger
    /\ wf = NoWf

\* Lines 68-74, 80-84: the files resample_files is about to save, in the
\* order of its saves, after resample_to_axial returned r.
PendingSaves(cwd, args, r) ==
    << <<ResampledFnameIn(cwd, args[1]), r.mag>>,
       <<ResampledFnameIn(cwd, args[2]), r.pha>> >>
    \o (IF r.has_mask THEN << <<ResampledFnameIn(cwd, args[3]), r.mask>> >>
        ELSE <<>>)

\* Lines 50-66: invocation i of resample_files loads its inputs, checks the
\* obliquity and resamples. The inputs are files no invocation writes.
ParStartFiles(i) ==
    /\ par[i].pc = "start"
    /\ par[i].op = "resample_files"
    /\ \E u \in {FirstUnloadable(
                   disk, SelectSeq(par[i].args, LAMBDA f : f # <<>>))} :
           IF u # <<>>
           THEN par' = [par EXCEPT ![i].pc = "raised",
                                   ![i].error = LoadError(disk, u)]
           ELSE
           \E r \in {IF Gate(Load(disk, par[i].args[1]), par[i].thr)
                     THEN [ok |-> TRUE, skip |-> TRUE]
                     ELSE [skip |-> FALSE] @@
                          resample_to_axial(
                              Load(disk, par[i].args[1]),
                              Load(disk, par[i].args[2]),
                              IF par[i].args[3] # <<>>
                              THEN Load(disk, par[i].args[3]) ELSE NoVol,
                              par[i].args[3] # <<>>)} :
               par' = [par EXCEPT
                         ![i].pc = IF ~r.ok THEN "raised"
                                   ELSE IF r.skip THEN "returned"
                                   ELSE "saving",
                         ![i].error = IF r.ok THEN "" ELSE r.error,
                         ![i].pending =
                             IF r.ok /\ ~r.skip
                             THEN PendingSaves(par[i].cwd, par[i].args, r)
                             ELSE <<>>]
    /\ UNCHANGED <<disk, pre, call, vox, cli, logger, wf>>

\* Lines 92-99: invocation i of resample_like loads its inputs, compares
\* the affines and resamples.
ParStartLike(i) ==
    /\ par[i].pc = "start"
    /\ par[i].op = "resample_like"
    /\ \E u \in {FirstUnloadable(
                   disk, SelectSeq(par[i].args, LAMBDA f : f # <<>>))} :
           IF u # <<>>
           THEN par' = [par EXCEPT ![i].pc = "raised",
                                   ![i].error = LoadError(disk, u)]
           ELSE
           \E nii \in {<<Load(disk, par[i].args[1]),
                         Load(disk, par[i].args[2])>>} :
               IF SameAffine(nii[1], nii[2])
               THEN par' = [par EXCEPT ![i].pc = "returned"]
               ELSE \E r \in {resample_img(nii[1], nii[2].affine,
                                           nii[2].shape, "continuous")} :
                        par' = [par EXCEPT
                                  ![i].pc = IF r.ok THEN "saving"
                                            ELSE "raised",
                                  ![i].error = r.error,
                                  ![i].pending =
                                      IF r.ok
                                      THEN << <<ResampledFnameIn(
                                                    par[i].cwd,
                                                    par[i].args[1]),
                                                r.img>> >>
                                      ELSE <<>>]
    /\ UNCHANGED <<disk, pre, call, vox, cli, logger, wf>>

\* nib.save (lines 76, 78, 86, 100) is three steps to the other process:
\* the file is opened for writing, which creates it or empties it, then
\* the header is written at the start of the file, then the data after it.
\* Each process writes at its own position in a file both have open, so a
\* file can end with the header of one image and the data of another.

\* Invocation i opens the file of its next save.
ParOpen(i) ==
    /\ par[i].pc = "saving"
    /\ LET path == par[i].pending[1][1]
       IN  IF CanSaveIn(WorkDirs, path, DOMAIN disk)
           THEN /\ disk' = [p \in DOMAIN disk \cup {path} |->
                               IF p = path THEN NoVol ELSE disk[p]]
                /\ par' = [par EXCEPT
                             ![i].written = Append(par[i].written, path),
                             ![i].pc = "header"]
           ELSE /\ disk' = disk
                /\ par' = [par EXCEPT
                             ![i].pc = "raised",
                             ![i].error =
                                 SaveErrorIn(WorkDirs, path, DOMAIN disk)]
    /\ UNCHANGED <<pre, call, vox, cli, logger, wf>>

\* Invocation i writes the header of the file it has open.
ParWriteHeader(i) ==
    /\ par[i].pc = "header"
    /\ LET path == par[i].pending[1][1]
           vol == Stored(par[i].pending[1][2])
       IN  disk' = [disk EXCEPT ![path] =
                       [@ EXCEPT !.shape = vol.shape, !.zooms = vol.zooms,
                                 !.sform = vol.sform, !.affine = vol.affine]]
    /\ par' = [par EXCEPT ![i].pc = "data"]
    /\ UNCHANGED <<pre, call, vox, cli, logger, wf>>

\* Invocation i writes the data of the file it has open, and closes it.
ParWriteData(i) ==
    /\ par[i].pc = "data"
    /\ LET path == par[i].pending[1][1]
           vol == par[i].pending[1][2]
       IN  disk' = [disk EXCEPT ![path] =
                       [@ EXCEPT !.kind = vol.kind, !.data = vol.data]]
    /\ par' = [par EXCEPT
                 ![i].pending = Tail(par[i].pending),
                 ![i].pc = IF Len(par[i].pending) = 1
                           THEN "returned" ELSE "saving"]
    /\ UNCHANGED <<pre, call, vox, cli, logger, wf>>

ParNext ==
    \E i \in 1..2 :
        \/ ParStartFiles(i)
        \/ ParStartLike(i)
        \/ ParOpen(i)
        \/ ParWriteHeader(i)
        \/ ParWriteData(i)

\* Two invocations that run concurrently.
ParSpec == ParInit /\ [][ParNext]_vars

\* The paths an invocation has written; the files it was given.
ParWritten(i) == {par[i].written[n] : n \in DOMAIN par[i].written}

ParInputs(i) ==
    {Abspath(par[i].args[n]) :
        n \in {n \in DOMAIN par[i].args : par[i].args[n] # <<>>}}

\* C13 (as the specification states it): two concurrent invocations on
\* different input files write disjoint sets of paths, and neither writes
\* a file the other is given: no interleaving lets one overwrite or read
\* the other's output. The invocations run in working directories of
\* their own.
C13_DisjointWrites ==
    (par # NoPar /\ ParInputs(1) \cap ParInputs(2) = {}) =>
        /\ ParWritten(1) \cap ParWritten(2) = {}
        /\ ParWritten(1) \cap ParInputs(2) = {}
        /\ ParWritten(2) \cap ParInputs(1) = {}


\* ---------------------------------------------------------------------
\* One voxel through resample_to_axial: decomposition into real and
\* imaginary parts, resampling, recomposition.
\*
\* Magnitudes are held in halves (Halves), real and imaginary parts in
\* tenths, angles in units of 2^-20 radian. Input phases are taken among the
\* directions whose cosine and sine are rational; the resampled parts may
\* point in the diagonal directions too. A stored phase other than 0 is
\* never its direction exactly: the parts carry floating-point error, and a
\* part that is 0 by its direction has the sign of that error.
\* ---------------------------------------------------------------------

\* Largest small magnitude of the input pool, in halves.
MaxHalves == 5

\* A direction: cosine c/den and sine s/den (den = 0: irrational, the
\* direction is given by the ratio c : s alone), and its angle as
\* np.arctan2 computes it, in units of 2^-20 radian.
Angle(c, s, den, rad) == [c |-> c, s |-> s, den |-> den, rad |-> rad]

Angles ==
    << Angle(1, 0, 1, 0),
       Angle(4, 3, 5, 674760),
       Angle(1, 1, 0, 823550),
       Angle(3, 4, 5, 972340),
       Angle(0, 1, 1, 1647099),
       Angle(-3, 4, 5, 2321859),
       Angle(-1, 1, 0, 2470649),
       Angle(-4, 3, 5, 2619439),
       Angle(-1, 0, 1, 3294199),
       Angle(-4, -3, 5, -2619439),
       Angle(-1, -1, 0, -2470649),
       Angle(-3, -4, 5, -2321859),
       Angle(0, -1, 1, -1647099),
       Angle(3, -4, 5, -972340),
       Angle(1, -1, 0, -823550),
       Angle(4, -3, 5, -674760),
       \* -pi: np.arctan2 of a negative zero over a negative number
       Angle(-1, 0, 1, -3294199) >>

\* The phases a voxel of the input can have: indices into Angles.
PhasePool == {k \in 1..Len(Angles) : Angles[k].den # 0}

\* The storage types of the inputs.
MagDTypes == {"uint8", "int16", "float32"}

PhaDTypes == {"int16", "float32"}

\* Whether a magnitude given in halves can be held in a storage type.
Representable(dtype, h) ==
    CASE dtype = "uint8" -> h % 2 = 0 /\ 0 <= h /\ h < 2 * 256
      [] dtype = "int16" -> h % 2 = 0 /\ -2 * 32768 <= h /\ h < 2 * 32768
      [] OTHER -> TRUE

\* The magnitudes a voxel of the input can have, in halves.
MagnitudePool(dtype) ==
    {h \in (0..MaxHalves) \cup {2 * 255, 2 * 1000} : Representable(dtype, h)}

\* The pairs (real, imag) a resampling can leave in a voxel, in tenths.
PostPool ==
    {<<a * Angles[k].c, a * Angles[k].s>> :
        a \in {0, 5, 12, 600}, k \in 1..Len(Angles)}


\* The voxel as loaded: its magnitude (halves), its phase (index into
\* Angles) and the storage types of the two volumes.
Voxel(mag_dtype, pha_dtype, mag, pha) ==
    [stage |-> "loaded", mag_dtype |-> mag_dtype, pha_dtype |-> pha_dtype,
     mag |-> mag, pha |-> pha, real |-> 0, imag |-> 0,
     real_neg |-> FALSE, imag_neg |-> FALSE, exact |-> TRUE,
     resampled |-> FALSE, mag_rot |-> 0, mag_rot_dtype |-> "",
     pha_rot |-> 0, pha_rot_dtype |-> "", pha_header_dtype |-> ""]

\* The sign bits <<of np.cos(pha), of np.sin(pha)>> for a stored phase in
\* direction k (TRUE: negative). A cosine or sine that is 0 by the direction
\* is a small number of either sign, since the stored phase is only close
\* to pi/2 or pi; the float32 numbers nearest to pi/2 and pi are larger
\* than these, which makes cos negative at +-pi/2 and sin negative at pi,
\* positive at -pi. The phase 0 is stored exactly.
SignBits(pha_dtype, k) ==
    {b \in BOOLEAN \X BOOLEAN :
        /\ Angles[k].c > 0 => ~b[1]
        /\ Angles[k].c < 0 => b[1]
        /\ (Angles[k].c = 0 /\ pha_dtype = "float32") => b[1]
        /\ Angles[k].s > 0 => ~b[2]
        /\ Angles[k].s < 0 => b[2]
        /\ (Angles[k].s = 0 /\ Angles[k].c > 0) => ~b[2]
        /\ (Angles[k].s = 0 /\ Angles[k].c < 0 /\ pha_dtype = "float32") =>
               (b[2] <=> Angles[k].rad > 0)}

\* The sine taken for the real part too.
Decomposed_SineTwice(v) ==
    {[v EXCEPT !.stage = "decomposed",
               !.real = (5 * v.mag * Angles[v.pha].s) \div Angles[v.pha].den,
               !.imag = (5 * v.mag * Angles[v.pha].s) \div Angles[v.pha].den,
               !.real_neg = b[2],
               !.imag_neg = b[2],
               !.exact = (Angles[v.pha].c = 1)] :
        b \in SignBits(v.pha_dtype, v.pha)}

\* real = mag * cos(pha), imag = mag * sin(pha), in tenths, with their sign
\* bits (the magnitude is not negative): the values the two products can
\* have. They are exact in floating point only for the phase 0.
Decomposed(v) ==
    {[v EXCEPT !.stage = "decomposed",
               !.real = (5 * v.mag * Angles[v.pha].c) \div Angles[v.pha].den,
               !.imag = (5 * v.mag * Angles[v.pha].s) \div Angles[v.pha].den,
               !.real_neg = b[1],
               !.imag_neg = b[2],
               !.exact = (Angles[v.pha].c = 1)] :
        b \in SignBits(v.pha_dtype, v.pha)}

\* Whether a value in tenths is a whole number of halves.
IsHalves(t) == t % 5 = 0

\* The largest s in lo..hi with s * s <= n.
RECURSIVE SqrtIn(_, _, _)
SqrtIn(n, lo, hi) ==
    IF lo = hi THEN lo
    ELSE LET mid == (lo + hi + 1) \div 2
         IN  IF mid * mid <= n THEN SqrtIn(n, mid, hi) ELSE SqrtIn(n, lo, mid - 1)

\* The integer part of the square root, for n below 2^31.
FloorSqrt(n) == SqrtIn(n, 0, 46340)

\* The sum of the squares of the two parts, in hundredths.
SumSquares(re, im) == re * re + im * im

\* np.hypot cast without np.round: the fraction is dropped.
NpRoundHypot_Truncated(re, im, exact) ==
    {FloorSqrt(SumSquares(re, im)) \div 10}

\* np.round(np.hypot(re, im), 0): the set of values the rounding can give.
\* A hypotenuse halfway between two integers goes to the even one; when
\* the parts carry floating-point error, it can fall on either side.
NpRoundHypot(re, im, exact) ==
    LET n == 4 * SumSquares(re, im)
    IN  \* s / 20 <= hypot < (s + 1) / 20
        Bind(FloorSqrt(n), LAMBDA s :
            LET q == s \div 20
                rem == s % 20
            IN  IF rem < 10 THEN {q}
                ELSE IF rem > 10 \/ s * s # n THEN {q + 1}
                ELSE IF ~exact THEN {q, q + 1}
                ELSE IF q % 2 = 0 THEN {q} ELSE {q + 1})

\* np.array(x, dtype=dtype) of a whole floating-point number: the values
\* the conversion can give. Outside of the range of an integer type the
\* conversion is undefined: the value wraps or saturates.
Cast(x, dtype) ==
    CASE dtype = "uint8" ->
            IF 0 <= x /\ x < 256 THEN {x} ELSE {x % 256, IF x < 0 THEN 0 ELSE 255}
      [] dtype = "int16" ->
            IF -32768 <= x /\ x < 32768 THEN {x}
            ELSE {((x + 32768) % 65536) - 32768, IF x < 0 THEN -32768 ELSE 32767}
      [] OTHER -> {x}

\* np.arctan2(im, re), as an index into Angles; im_neg and re_neg are the
\* sign bits of the two numbers. A zero im over a negative re, or over a
\* negative zero, gives pi or -pi by the sign bit of im; over a positive re,
\* or a positive zero, it gives 0.
Arctan2(im, re, im_neg, re_neg) ==
    IF im = 0
    THEN IF re > 0 \/ (re = 0 /\ ~re_neg) THEN 1
         ELSE IF im_neg THEN 17 ELSE 9
    ELSE CHOOSE k \in 1..16 :
            /\ re * Angles[k].s = im * Angles[k].c
            /\ re * Angles[k].c + im * Angles[k].s > 0

\* The spacing of the half-precision numbers around a, for a > 0 in units
\* of 2^-20: 2^-10 times the power of two at or below a.
Quantum(a) ==
    IF a < 1024 THEN 1
    ELSE CHOOSE q \in {2 ^ k : k \in 0..12} : q * 1024 <= a /\ a < q * 2048

\* The conversion to np.float16 of an angle in units of 2^-20: to the
\* nearest half-precision number, ties to the even one.
Float16(rad) ==
    LET a == IF rad < 0 THEN -rad ELSE rad
        q == Quantum(a)
        n == a \div q
        r == a % q
        m == IF 2 * r > q \/ (2 * r = q /\ n % 2 = 1) THEN n + 1 ELSE n
    IN  IF rad < 0 THEN -(m * q) ELSE m * q

\* resample_to_axial follows one voxel.
NumInit ==
    /\ disk = <<>>
    /\ pre = disk
    /\ call = NoCall
    /\ par = NoPar
    /\ cli = NoCli
    /\ logger = NoLogger
    /\ wf = NoWf
    /\ \E md \in MagDTypes, pd \in PhaDTypes, p \in PhasePool :
       \E m \in MagnitudePool(md) :
          vox = Voxel(md, pd, m, p)

\* Lines 19-22: the decomposition.
Decompose ==
    /\ vox.stage = "loaded"
    /\ vox' \in Decomposed(vox)
    /\ UNCHANGED <<disk, pre, call, par, cli, logger, wf>>

\* Lines 31-32: resample_img leaves other values in the voxel, a zero with
\* either sign bit; or, where the target grid is the source's grid, the
\* values it found (resampled = FALSE), with or without rounding error.
ResampleVoxel ==
    /\ vox.stage = "decomposed"
    /\ \/ \E p \in PostPool, b \in BOOLEAN \X BOOLEAN :
             /\ p[1] # 0 => (b[1] <=> p[1] < 0)
             /\ p[2] # 0 => (b[2] <=> p[2] < 0)
             /\ vox' = [vox EXCEPT !.stage = "resampled", !.resampled = TRUE,
                                   !.real = p[1], !.imag = p[2],
                                   !.real_neg = b[1], !.imag_neg = b[2],
                                   !.exact = IsHalves(p[1]) /\ IsHalves(p[2])]
       \/ \E e \in {vox.exact, FALSE} :
             vox' = [vox EXCEPT !.stage = "resampled", !.exact = e]
    /\ UNCHANGED <<disk, pre, call, par, cli, logger, wf>>

\* Lines 36-43: the recomposition and the images built from it.
Recompose ==
    /\ vox.stage = "resampled"
    /\ \E r \in NpRoundHypot(vox.real, vox.imag, vox.exact) :
       \E m \in Cast(r, vox.mag_dtype) :
          vox' = [vox EXCEPT !.stage = "recomposed",
                             !.mag_rot = m,
                             !.mag_rot_dtype = vox.mag_dtype,
                             !.pha_rot = Float16(Angles[Arctan2(vox.imag, vox.real,
                                                    vox.imag_neg,
                                                    vox.real_neg)].rad),
                             !.pha_rot_dtype = "float16",
                             !.pha_header_dtype = vox.pha_dtype]
    /\ UNCHANGED <<disk, pre, call, par, cli, logger, wf>>

NumNext ==
    \/ Decompose
    \/ ResampleVoxel
    \/ Recompose

NumSpec == NumInit /\ [][NumNext]_vars


\* ---------------------------------------------------------------------
\* Properties of the recomposition (NumSpec)
\* ---------------------------------------------------------------------

\* Whether the norm of (re, im), given in tenths, rounds into the range of
\* the storage type.
Fits(dtype, re, im) ==
    CASE dtype = "uint8" -> FloorSqrt(SumSquares(re, im)) < 10 * 255 + 5
      [] dtype = "int16" -> FloorSqrt(SumSquares(re, im)) < 10 * 32767 + 5
      [] OTHER -> TRUE

\* Whether the integer m is at most one half away from the norm of
\* (re, im), given in tenths.
NearestInteger(m, re, im) ==
    /\ m >= 0
    /\ m = 0 => SumSquares(re, im) <= 25
    /\ m >= 1 => /\ (10 * m - 5) * (10 * m - 5) <= SumSquares(re, im)
                 /\ SumSquares(re, im) <= (10 * m + 5) * (10 * m + 5)

\* Whether h is a half-precision number at most half a spacing away from
\* the angle of the point (re, im): the angle of its direction where it has
\* one, with the sign of im where im is a zero; 0, pi or -pi by the sign
\* bits where both parts are zeros.
NearestHalfPrecision(h, re, im) ==
    \E k \in 1..Len(Angles) :
        /\ \/ /\ re = 0 /\ im = 0
              /\ Angles[k].s = 0
              /\ Angles[k].c < 0 <=> vox.real_neg
           \/ /\ re * Angles[k].s = im * Angles[k].c
              /\ re * Angles[k].c + im * Angles[k].s > 0
        /\ (im = 0 /\ Angles[k].c < 0) => (Angles[k].rad < 0 <=> vox.imag_neg)
        /\ Abs(h) % Quantum(Abs(Angles[k].rad)) = 0
        /\ 2 * Abs(h - Angles[k].rad) <= Quantum(Abs(Angles[k].rad))

\* C14: the magnitude returned by resample_to_axial is the norm of the
\* resampled real and imaginary parts rounded to the nearest integer (where
\* that integer is in the range of the type), in the storage type of the
\* input magnitude; the phase returned is the four-quadrant arctangent of
\* the imaginary over the real part, in half precision whatever the
\* storage type of the input phase.
C14_Recomposition ==
    vox.stage = "recomposed" =>
        /\ vox.mag_rot_dtype = vox.mag_dtype
        /\ Fits(vox.mag_dtype, vox.real, vox.imag) =>
               NearestInteger(vox.mag_rot, vox.real, vox.imag)
        /\ vox.pha_rot_dtype = "float16"
        /\ NearestHalfPrecision(vox.pha_rot, vox.real, vox.imag)

\* A resampled voxel of a float32 magnitude and an int16 phase, whose norm
\* 1.697 has been rounded to 2 and whose angle pi/4 to 0.78515625.
C14_Witness ==
    /\ vox.stage = "recomposed" /\ vox.resampled
    /\ vox.mag_dtype = "float32" /\ vox.pha_dtype = "int16"
    /\ vox.real = 12 /\ vox.imag = 12
    /\ vox.mag_rot = 2 /\ vox.mag_rot_dtype = "float32"
    /\ vox.pha_rot = 823296 /\ vox.pha_rot_dtype = "float16"


\* C15: a voxel decomposed and recomposed with no resampling in between
\* (the resampling onto the voxel's own grid left the two parts as they
\* were) has a magnitude at most 1 away from the magnitude it had, whatever
\* its phase (magnitudes in halves: at most 2 halves away).
C15_MagnitudeRoundTrip ==
    (vox.stage = "recomposed" /\ ~vox.resampled) =>
        Abs(2 * vox.mag_rot - vox.mag) <= 2

\* A float32 magnitude of 2.5 at the angle atan2(3, 4), recomposed without
\* resampling into 3.
C15_Witness ==
    /\ vox.stage = "recomposed" /\ ~vox.resampled
    /\ vox.mag_dtype = "float32" /\ vox.mag = 5
    /\ Angles[vox.pha].c = 4 /\ Angles[vox.pha].s = 3
    /\ vox.real = 20 /\ vox.imag = 15
    /\ vox.mag_rot = 3


\* ---------------------------------------------------------------------
\* Properties of the output names (Spec)
\* ---------------------------------------------------------------------

\* C16 (as the specification states it): every file written by
\* resample_files or resample_like is a single file name in the working
\* directory, and its extension is the extension of the base name of the
\* input file it was made from.
C16_OutputFormat ==
    \A i \in DOMAIN call.written :
        /\ Dirname(call.written[i]) = Cwd
        /\ SplitDotRest(Basename(call.written[i]))
               = SplitDotRest(Basename(call.args[i]))


---------------------------------------------------------------------------
(* run_2_qsm.py: the command-line options through process_args.           *)
(* Strings are sequences of characters; None is the empty sequence.        *)

\* Largest number of CPUs the environment reports.
MaxCpus == 8

\* The choices of --masking and of --qsm_algorithm.
PhaseBased == <<"p", "h", "a", "s", "e", "-", "b", "a", "s", "e", "d">>

MagnitudeBased ==
    <<"m", "a", "g", "n", "i", "t", "u", "d", "e", "-", "b", "a", "s", "e", "d">>

Bet == <<"b", "e", "t">>

BetFirstecho == <<"b", "e", "t", "-", "f", "i", "r", "s", "t", "e", "c", "h", "o">>

MaskingChoices == {PhaseBased, MagnitudeBased, Bet, BetFirstecho}

AlgorithmChoices == {"tgv_qsm", "nextqsm"}

\* sub in s, for strings
In(sub, s) ==
    \E i \in 1..(Len(s) - Len(sub) + 1) : SubSeq(s, i, i + Len(sub) - 1) = sub

\* The options process_args reads, as parse_args returns them.
Namespace(masking, qsm_algorithm, add_bet, single_pass, inhomogeneity_correction, n_procs, qsub_account_string, debug) ==
    [masking |-> masking, qsm_algorithm |-> qsm_algorithm,
     add_bet |-> add_bet, single_pass |-> single_pass,
     inhomogeneity_correction |-> inhomogeneity_correction,
     n_procs |-> n_procs, qsub_account_string |-> qsub_account_string,
     debug |-> debug,
     \* not set by parse_args
     two_pass |-> FALSE, tgvqsm_threads |-> <<>>]

\* Lines 300-502: the namespaces parse_args can return.
ParsedArgs ==
    {Namespace(m, q, ab, sp, ic, np, pbs, dbg) :
        m \in MaskingChoices \cup {<<>>}, q \in AlgorithmChoices,
        ab \in BOOLEAN, sp \in BOOLEAN, ic \in BOOLEAN,
        np \in {<<>>, <<0>>, <<1>>, <<12>>},
        pbs \in {<<>>, <<"a">>}, dbg \in BOOLEAN}

\* A faulty variant of the default masking: the two defaults exchanged.
DefaultMasking_Exchanged(masking, qsm_algorithm) ==
    IF masking # <<>> THEN masking
    ELSE IF qsm_algorithm = "tgv_qsm" THEN BetFirstecho
    ELSE IF qsm_algorithm = "nextqsm" THEN PhaseBased
    ELSE masking

\* Lines 516-520: the masking after the defaults.
DefaultMasking(masking, qsm_algorithm) ==
    IF masking # <<>> THEN masking
    ELSE IF qsm_algorithm = "tgv_qsm" THEN PhaseBased
    ELSE IF qsm_algorithm = "nextqsm" THEN BetFirstecho
    ELSE masking

\* A faulty variant of line 523: the option is kept as given.
AddBet_AsGiven(add_bet, masking) == add_bet

\* Line 523: args.add_bet &= 'bet' not in args.masking
AddBet(add_bet, masking) == add_bet /\ ~In(Bet, masking)

\* A faulty variant of line 526: --single_pass is not looked at.
TwoPass_WhateverSinglePass(masking, single_pass) == ~In(Bet, masking)

\* Line 526: 'bet' not in args.masking and not args.single_pass
TwoPass(masking, single_pass) == ~In(Bet, masking) /\ ~single_pass

\* A faulty variant of line 530: the BET addition does not count.
InhomogeneityCorrection_WithoutBet(inhomogeneity_correction, add_bet, masking) ==
    inhomogeneity_correction /\ ~In(PhaseBased, masking)

\* Line 530: args.inhomogeneity_correction &=
\*               (args.add_bet or 'phase-based' not in args.masking)
InhomogeneityCorrection(inhomogeneity_correction, add_bet, masking) ==
    inhomogeneity_correction /\ (add_bet \/ ~In(PhaseBased, masking))

\* Lines 534-536: the number of processes; n_cpus is what the environment
\* reports (NCPUS or os.cpu_count()).
NProcs(n_procs, n_cpus) == IF ~Truthy(n_procs) THEN <<n_cpus>> ELSE n_procs

\* Line 540: min(6, args.n_procs) if not args.qsub_account_string else 6
TgvqsmThreads(n_procs, qsub_account_string) ==
    IF qsub_account_string = <<>> THEN <<Min2(6, n_procs[1])>> ELSE <<6>>

\* Lines 514-553: process_args(args) where the environment reports n_cpus.
process_args(args, n_cpus) ==
    Bind(DefaultMasking(args.masking, args.qsm_algorithm),
    LAMBDA masking :
    Bind(AddBet(args.add_bet, masking),
    LAMBDA add_bet :
    Bind(TwoPass(masking, args.single_pass),
    LAMBDA two_pass :
    Bind(NProcs(args.n_procs, n_cpus),
    LAMBDA n_procs :
        [args EXCEPT
            !.masking = masking,
            !.add_bet = add_bet,
            !.two_pass = two_pass,
            !.single_pass = ~two_pass,
            !.inhomogeneity_correction =
                InhomogeneityCorrection(args.inhomogeneity_correction,
                                        add_bet, masking),
            !.n_procs = n_procs,
            !.tgvqsm_threads =
                TgvqsmThreads(n_procs, args.qsub_account_string)]))))

\* The command line parsed, process_args not yet called.
ArgsInit ==
    /\ disk = <<>>
    /\ pre = disk
    /\ call = NoCall
    /\ par = NoPar
    /\ vox = NoVox
    /\ logger = NoLogger
    /\ wf = NoWf
    /\ \E a \in ParsedArgs, n \in 1..MaxCpus :
          cli = [pc |-> "parsed", given |-> a, n_cpus |-> n, args |-> a,
                 debug_mode |-> FALSE]

\* Line 621: args = process_args(args)
ProcessArgs ==
    /\ cli.pc = "parsed"
    /\ cli' = [cli EXCEPT !.pc = "processed",
                          !.args = process_args(cli.args, cli.n_cpus),
                          !.debug_mode = cli.args.debug]
    /\ UNCHANGED <<disk, pre, call, par, vox, logger, wf>>

ArgsNext == ProcessArgs

ArgsSpec == ArgsInit /\ [][ArgsNext]_vars


\* ---------------------------------------------------------------------
\* Properties of process_args (ArgsSpec)
\* ---------------------------------------------------------------------

\* Whether process_args has returned.
Processed == cli.pc = "processed"

\* The masking methods that use BET.
BetMaskings == {Bet, BetFirstecho}

\* C17: after process_args, a masking that was not given is phase-based
\* for tgv_qsm and bet-firstecho for nextqsm; a masking that was given is
\* the given one.
C17_DefaultMasking ==
    Processed =>
        /\ (cli.given.masking = <<>> /\ cli.given.qsm_algorithm = "tgv_qsm")
               => cli.args.masking = PhaseBased
        /\ (cli.given.masking = <<>> /\ cli.given.qsm_algorithm = "nextqsm")
               => cli.args.masking = BetFirstecho
        /\ cli.given.masking # <<>> => cli.args.masking = cli.given.masking

\* nextqsm with no --masking has become bet-firstecho.
C17_Witness ==
    /\ Processed
    /\ cli.given.masking = <<>> /\ cli.given.qsm_algorithm = "nextqsm"
    /\ cli.args.masking = BetFirstecho

\* C18: after process_args, two_pass is true exactly when the masking has
\* no 'bet' in it and --single_pass was not given, and single_pass is the
\* negation of two_pass.
C18_PassMode ==
    Processed =>
        /\ cli.args.two_pass
               <=> (cli.args.masking \notin BetMaskings
                       /\ ~cli.given.single_pass)
        /\ cli.args.single_pass <=> ~cli.args.two_pass

\* BET masking without --single_pass: single_pass has been set.
C18_Witness ==
    /\ Processed
    /\ cli.given.masking = Bet /\ ~cli.given.single_pass
    /\ ~cli.args.two_pass /\ cli.args.single_pass

\* C19: after process_args, add_bet is true exactly when --add_bet was
\* given and the masking has no 'bet' in it; it is never true together
\* with a BET masking.
C19_AddBetValidity ==
    Processed =>
        /\ cli.args.add_bet
               <=> (cli.given.add_bet /\ cli.args.masking \notin BetMaskings)
        /\ ~(cli.args.add_bet /\ cli.args.masking \in BetMaskings)

\* --add_bet given with nextqsm and no --masking: the defaulted masking is
\* bet-firstecho and add_bet has been cleared.
C19_Witness ==
    /\ Processed
    /\ cli.given.add_bet /\ cli.given.masking = <<>>
    /\ cli.args.masking = BetFirstecho
    /\ ~cli.args.add_bet

\* C20: after process_args, inhomogeneity_correction is true exactly when
\* --inhomogeneity_correction was given and the resulting add_bet is true
\* or the masking is not phase-based; with phase-based masking and no BET
\* it is false.
C20_InhomogeneityCorrection ==
    Processed =>
        /\ cli.args.inhomogeneity_correction
               <=> /\ cli.given.inhomogeneity_correction
                   /\ cli.args.add_bet \/ cli.args.masking # PhaseBased
        /\ (cli.args.masking = PhaseBased /\ ~cli.args.add_bet)
               => ~cli.args.inhomogeneity_correction

\* Phase-based masking by default with --add_bet: the correction is kept.
C20_Witness ==
    /\ Processed
    /\ cli.given.inhomogeneity_correction /\ cli.given.add_bet
    /\ cli.given.masking = <<>> /\ cli.args.masking = PhaseBased
    /\ cli.args.add_bet
    /\ cli.args.inhomogeneity_correction


\* Whether neither --n_procs nor --pbs was given.
NoProcsNoPbs == cli.given.n_procs = <<>> /\ cli.given.qsub_account_string = <<>>

\* C21 (as the specification and the tests of the repository state it,
\* run_test_qsm.py lines 192-193 and 216-217): after process_args with no
\* --n_procs and no --pbs, where the environment reports N CPUs,
\* 0 < n_procs <= N and 0 < tgvqsm_threads < N.
C21_ProcessCounts ==
    (Processed /\ NoProcsNoPbs) =>
        /\ 0 < cli.args.n_procs[1] /\ cli.args.n_procs[1] <= cli.n_cpus
        /\ 0 < cli.args.tgvqsm_threads[1]
        /\ cli.args.tgvqsm_threads[1] < cli.n_cpus


\* ---------------------------------------------------------------------
\* Further properties of resample_files (Spec)
\* ---------------------------------------------------------------------

\* C28 (as the specification states it): for a magnitude volume with an
\* invertible affine and positive voxel spacing, every diagonal entry of
\* the target affine resample_to_axial builds is nonzero, and the target
\* affine is invertible.
C28_TargetUsable ==
    (IsFiles /\ call.invoked
        /\ Det3(ArgVol(1).affine) # 0
        /\ \A i \in Idx3 : ArgVol(1).zooms[i] > 0) =>
        /\ \A i \in Idx3 : call.base_affine[i][i] # 0
        /\ Det3(call.base_affine) # 0


\* C29 (as the specification states it): when resample_files is called
\* without a mask, the third element of its result is the absent value it
\* was given, on the skip path and on the resampling path, and never the
\* name of a file that does not exist.
C29_AbsentMaskStaysAbsent ==
    (IsFiles /\ call.outcome = "returned" /\ call.args[3] = <<>>) =>
        /\ call.result[3] = call.args[3]
        /\ call.result[3] # <<>> => Abspath(call.result[3]) \in DOMAIN disk


---------------------------------------------------------------------------
(* scripts/logger.py: the logger named 'main', its handlers and their      *)
(* streams, and show_warning_summary.                                      *)

\* LogLevel
CRITICAL == 50

ERROR == 40

WARNING == 30

INFO == 20

DEBUG == 10

NOTSET == 0

\* Most calls of make_logger, messages logged and calls of
\* show_warning_summary in a behaviour.
MaxLoggers == 2

MaxMessages == 2

MaxSummaries == 2

\* A message passed to logger.log: its level and whether it is one of the
\* two notices of show_warning_summary (0: no; 1: 'completed with
\* warnings'; 2: 'errors occurred').
Message(level, notice) == [level |-> level, notice |-> notice]

\* logging.StreamHandler(stream=_StringStream(...)) or logging.FileHandler:
\* a new handler accepts every level (NOTSET).
Handler(kind) == [kind |-> kind, level |-> NOTSET, items |-> <<>>]

\* Lines 78-82: the levels go to the handlers at positions 0 to 3 of
\* logger.handlers, whichever call added them.
SetLevels(handlers, logpath, printlevel, warnlevel, errorlevel, writelevel) ==
    [i \in DOMAIN handlers |->
        IF i = 1 THEN [handlers[i] EXCEPT !.level = printlevel]
        ELSE IF i = 2 THEN [handlers[i] EXCEPT !.level = warnlevel]
        ELSE IF i = 3 THEN [handlers[i] EXCEPT !.level = errorlevel]
        ELSE IF i = 4 /\ logpath # <<>>
            THEN [handlers[i] EXCEPT !.level = writelevel]
        ELSE handlers[i]]

\* Lines 43-85: make_logger on the logger lg.
make_logger(lg, logpath, printlevel, warnlevel, errorlevel, writelevel) ==
    [lg EXCEPT
        !.handlers =
            SetLevels(lg.handlers
                        \o <<Handler("console"), Handler("warnings"),
                             Handler("errors")>>
                        \o (IF logpath # <<>> THEN <<Handler("file")>>
                            ELSE <<>>),
                      logpath, printlevel, warnlevel, errorlevel, writelevel),
        !.level = printlevel,
        !.printlevel = printlevel,
        !.warnlevel = warnlevel,
        !.errorlevel = errorlevel,
        !.made = lg.made + 1]

\* Logger.getEffectiveLevel: a logger whose level is NOTSET takes the level
\* of the root logger, WARNING unless configured.
EffectiveLevel(level) == IF level = NOTSET THEN WARNING ELSE level

\* Logger.callHandlers, _StringStream.write (lines 28-35): every handler
\* whose level the message reaches appends it to its stream.
Emit(handlers, msg) ==
    [i \in DOMAIN handlers |->
        IF msg.level >= handlers[i].level /\ handlers[i].kind # "file"
        THEN [handlers[i] EXCEPT !.items = Append(@, msg)]
        ELSE handlers[i]]

\* logger.log(level, ...): dropped below the logger's effective level.
Log(lg, msg) ==
    IF msg.level >= EffectiveLevel(lg.level)
    THEN [lg EXCEPT !.handlers = Emit(lg.handlers, msg)]
    ELSE lg

\* Lines 92-96: show_warning_summary(logger); seen remembers how many
\* messages the program had logged, shown which notices were logged.
show_warning_summary(lg) ==
    Bind(lg.handlers[2].items # <<>>,
    LAMBDA warned :
    Bind(IF warned THEN Log(lg, Message(INFO, 1)) ELSE lg,
    LAMBDA lg1 :
    Bind(lg1.handlers[3].items # <<>>,
    LAMBDA errored :
        [(IF errored THEN Log(lg1, Message(INFO, 2)) ELSE lg1) EXCEPT
            !.summaries = lg.summaries + 1,
            !.seen = Len(lg.logged),
            !.shown = [warnings |-> warned, errors |-> errored]])))

\* The levels make_logger is called with: printlevel, warnlevel,
\* errorlevel, writelevel, with printlevel <= warnlevel <= errorlevel.
LevelConfigs ==
    { <<INFO, WARNING, ERROR, INFO>>,
      <<INFO, WARNING, ERROR, WARNING>>,
      <<DEBUG, WARNING, CRITICAL, WARNING>>,
      <<WARNING, WARNING, ERROR, WARNING>>,
      <<DEBUG, DEBUG, INFO, WARNING>>,
      <<NOTSET, DEBUG, ERROR, WARNING>> }

\* The levels of the messages logged.
MessageLevels == {DEBUG, INFO, WARNING, ERROR, CRITICAL}

\* logging.getLogger(name='main') before make_logger was called.
LoggerInit ==
    /\ disk = <<>>
    /\ pre = disk
    /\ call = NoCall
    /\ par = NoPar
    /\ vox = NoVox
    /\ cli = NoCli
    /\ wf = NoWf
    /\ logger = [handlers |-> <<>>, level |-> NOTSET, made |-> 0,
                 printlevel |-> NOTSET, warnlevel |-> NOTSET,
                 errorlevel |-> NOTSET,
                 logged |-> <<>>, summaries |-> 0, seen |-> 0,
                 shown |-> [warnings |-> FALSE, errors |-> FALSE]]

\* make_logger(logpath, printlevel, warnlevel, errorlevel, writelevel)
MakeLogger ==
    /\ logger.made < MaxLoggers
    /\ \E c \in LevelConfigs, logpath \in {<<>>, <<"l">>} :
          logger' = make_logger(logger, logpath, c[1], c[2], c[3], c[4])
    /\ UNCHANGED <<disk, pre, call, par, vox, cli, wf>>

\* logger.log(level, message) by the program; logged remembers the level
\* and the warnlevel and errorlevel in force.
LogMessage ==
    /\ logger.made > 0
    /\ Len(logger.logged) < MaxMessages
    /\ \E level \in MessageLevels :
          logger' = [Log(logger, Message(level, 0)) EXCEPT
                        !.logged = Append(@,
                            [level |-> level,
                             warning |-> level >= logger.warnlevel,
                             error |-> level >= logger.errorlevel])]
    /\ UNCHANGED <<disk, pre, call, par, vox, cli, wf>>

\* show_warning_summary(logger)
ShowWarningSummary ==
    /\ logger.made > 0
    /\ logger.summaries < MaxSummaries
    /\ logger' = show_warning_summary(logger)
    /\ UNCHANGED <<disk, pre, call, par, vox, cli, wf>>

LoggerNext ==
    \/ MakeLogger
    \/ LogMessage
    \/ ShowWarningSummary

LoggerSpec == LoggerInit /\ [][LoggerNext]_vars

\* ---------------------------------------------------------------------
\* Properties of the warning summary (LoggerSpec)
\* ---------------------------------------------------------------------

\* C30 (as the specification states it): after show_warning_summary, the
\* 'completed with warnings' notice has been logged exactly when a message
\* of level >= warnlevel was logged by the program, and the 'errors
\* occurred' notice exactly when a message of level >= errorlevel was; the
\* notices do not count as messages.
C30_WarningSummary ==
    logger.summaries > 0 =>
        /\ logger.shown.warnings
               <=> \E i \in 1..logger.seen : logger.logged[i].warning
        /\ logger.shown.errors
               <=> \E i \in 1..logger.seen : logger.logged[i].error


---------------------------------------------------------------------------
(* run_2_qsm.py: the construction of the workflows. The files a glob       *)
(* finds are held as their number; the subjects, sessions and runs found   *)
(* are held as nested sequences.                                           *)

\* Most files of a kind in a run.
MaxEchoes == 2

\* The files of one run: how many phase, magnitude, JSON and mask files the
\* patterns match.
RunFiles(phase, magnitude, params, masks) ==
    [phase |-> phase, magnitude |-> magnitude, params |-> params,
     masks |-> masks]

\* The settings init_run_workflow reads, from the namespace process_args
\* returned and the options --use_existing_masks and --num_echoes.
RunArgs(a, use_existing_masks, num_echoes) ==
    [masking |-> a.masking, qsm_algorithm |-> a.qsm_algorithm,
     add_bet |-> a.add_bet, single_pass |-> a.single_pass,
     two_pass |-> a.two_pass,
     inhomogeneity_correction |-> a.inhomogeneity_correction,
     use_existing_masks |-> use_existing_masks, num_echoes |-> num_echoes]

\* sorted(glob.glob(pattern))[:num_echoes], as a number of files
\* (num_echoes None or not negative).
Take(n, num_echoes) ==
    IF num_echoes = <<>> THEN n ELSE Min2(n, num_echoes[1])

\* Line 116: whether a setting needs the magnitude.
NeedsMagnitude(run_args) ==
    \/ run_args.masking = MagnitudeBased
    \/ In(Bet, run_args.masking)
    \/ run_args.add_bet
    \/ run_args.inhomogeneity_correction

\* A faulty variant of lines 116-120: the inhomogeneity correction is left
\* as it was.
NoMagnitudeFallback_KeepsCorrection(run_args, magnitude_files) ==
    IF magnitude_files = 0 /\ NeedsMagnitude(run_args)
    THEN [run_args EXCEPT !.masking = PhaseBased, !.add_bet = FALSE]
    ELSE run_args

\* A faulty variant of lines 116-120: the masking is left as it was.
NoMagnitudeFallback_KeepsMasking(run_args, magnitude_files) ==
    IF magnitude_files = 0 /\ NeedsMagnitude(run_args)
    THEN [run_args EXCEPT !.add_bet = FALSE,
                          !.inhomogeneity_correction = FALSE]
    ELSE run_args

\* Lines 116-120: without magnitude files the settings that need them are
\* given up.
NoMagnitudeFallback(run_args, magnitude_files) ==
    IF magnitude_files = 0 /\ NeedsMagnitude(run_args)
    THEN [run_args EXCEPT !.masking = PhaseBased, !.add_bet = FALSE,
                          !.inhomogeneity_correction = FALSE]
    ELSE run_args

\* A faulty variant of lines 123-125: masks in a number different from the
\* phase files are kept.
ValidatedMasks_Kept(run_args, mask_files, phase_files) == mask_files

\* Lines 123-125: more than one mask, in a number different from the phase
\* files, are discarded.
ValidatedMasks(run_args, mask_files, phase_files) ==
    IF run_args.use_existing_masks /\ mask_files > 1
           /\ mask_files # phase_files
    THEN 0 ELSE mask_files

\* A faulty variant of lines 126-130: add_bet is left as it was.
ExistingMasksOverride_KeepsBet(run_args, mask_files) ==
    IF run_args.use_existing_masks /\ mask_files # 0
    THEN [run_args EXCEPT !.inhomogeneity_correction = FALSE,
                          !.two_pass = FALSE, !.single_pass = TRUE]
    ELSE run_args

\* Lines 126-130: with existing masks the masking options are given up.
ExistingMasksOverride(run_args, mask_files) ==
    IF run_args.use_existing_masks /\ mask_files # 0
    THEN [run_args EXCEPT !.inhomogeneity_correction = FALSE,
                          !.two_pass = FALSE, !.single_pass = TRUE,
                          !.add_bet = FALSE]
    ELSE run_args

\* Line 170: a single mask is repeated once per phase file.
RepeatedMasks(mask_files, phase_files) ==
    IF mask_files = 1 THEN phase_files ELSE mask_files

\* The warnings of lines 117, 122 and 124, as a sequence of levels.
RunWarnings(run_args, magnitude_files, mask_files, phase_files) ==
    (IF magnitude_files = 0 /\ NeedsMagnitude(run_args)
        THEN <<WARNING>> ELSE <<>>)
    \o (IF run_args.use_existing_masks /\ mask_files = 0
        THEN <<WARNING>> ELSE <<>>)
    \o (IF run_args.use_existing_masks /\ mask_files > 1
               /\ mask_files # phase_files
        THEN <<WARNING>> ELSE <<>>)

\* A run that init_run_workflow skips (it returns None).
SkippedRun(run_args, why) ==
    [outcome |-> "skipped", why |-> why, run_args |-> run_args,
     phase_files |-> 0, magnitude_files |-> 0, params_files |-> 0,
     mask_files |-> 0, axial |-> FALSE, axial_iterfield |-> <<>>,
     inhomogeneity |-> FALSE, logged |-> <<INFO, WARNING>>]

\* Lines 133-276: the workflow of a run with its settings run_args, the
\* files n_getfiles holds, and the nodes created: the axial-resampling
\* MapNode with the lengths of the lists it iterates over, and the
\* inhomogeneity-correction MapNode. Connecting the latter from a
\* resampling node that was never created raises (line 233).
BuiltRun(run_args, phase_files, magnitude_files, params_files, mask_files, logged) ==
    [outcome |-> IF run_args.inhomogeneity_correction /\ magnitude_files = 0
                 THEN "raised" ELSE "built",
     why |-> IF run_args.inhomogeneity_correction /\ magnitude_files = 0
             THEN "UnboundLocalError" ELSE "",
     run_args |-> run_args,
     phase_files |-> phase_files, magnitude_files |-> magnitude_files,
     params_files |-> params_files, mask_files |-> mask_files,
     axial |-> magnitude_files # 0,
     axial_iterfield |->
        IF magnitude_files = 0 THEN <<>>
        ELSE IF mask_files # 0
            THEN <<magnitude_files, phase_files, mask_files>>
        ELSE <<magnitude_files, phase_files>>,
     inhomogeneity |-> run_args.inhomogeneity_correction,
     logged |-> <<INFO>> \o logged]

\* Lines 92-298: init_run_workflow(run_args, subject, session, run) where
\* the patterns of the run match the files found.
init_run_workflow(run_args, found) ==
    Bind(Take(found.phase, run_args.num_echoes),
    LAMBDA phase_files :
    Bind(Take(found.magnitude, run_args.num_echoes),
    LAMBDA magnitude_files :
    Bind(Take(found.params, run_args.num_echoes),
    LAMBDA params_files :
    Bind(IF run_args.use_existing_masks
            THEN Take(found.masks, run_args.num_echoes) ELSE 0,
    LAMBDA mask_files :
        IF phase_files = 0 THEN SkippedRun(run_args, "no phase files")
        ELSE IF phase_files # params_files
            THEN SkippedRun(run_args, "unequal JSON and phase files")
        ELSE
        Bind(NoMagnitudeFallback(run_args, magnitude_files),
        LAMBDA args1 :
        Bind(ValidatedMasks(args1, mask_files, phase_files),
        LAMBDA masks1 :
            BuiltRun(ExistingMasksOverride(args1, masks1),
                     phase_files, magnitude_files, params_files,
                     RepeatedMasks(masks1, phase_files),
                     RunWarnings(run_args, magnitude_files, mask_files,
                                 phase_files))))))))


\* A session directory: whether the path of one of its phase files, as
\* glob gives it (the directories above the file included), holds no
\* 'run-', and the files that the patterns of each run identified at
\* line 79 match (no run: no phase file). A phase file with 'run-' in a
\* directory above it and none in its name passes line 74; the run
\* identifier cut from its name is then not one the file carries, and the
\* patterns of that run match no file.
Session(norun, runs) == [norun |-> norun, runs |-> runs]

\* The run cut from a name without 'run-': its patterns match nothing.
NamelessRun == RunFiles(0, 0, 0, 0)

\* A run with one echo and nothing missing.
GoodRun == RunFiles(1, 1, 1, 0)

GoodSession == Session(FALSE, <<GoodRun>>)

\* The runs studied alone: every number of files of each kind, with at
\* least the phase file the run was identified from.
StudyRuns ==
    {RunFiles(p, m, j, k) :
        p \in 1..MaxEchoes, m \in 0..MaxEchoes, j \in 0..MaxEchoes,
        k \in 0..MaxEchoes}

\* The runs studied next to a sibling: no magnitude; a mask; no JSON file;
\* nothing missing.
SiblingRuns ==
    {RunFiles(1, 0, 1, 0), RunFiles(1, 1, 1, 1), RunFiles(1, 1, 0, 0),
     GoodRun}

\* What the patterns find under the BIDS directory: a sequence of
\* subjects, each a sequence of sessions.
Trees ==
    {<< <<Session(FALSE, <<r>>)>> >> : r \in StudyRuns}
    \cup {<< <<Session(FALSE, <<r, GoodRun>>)>> >> : r \in SiblingRuns}
    \cup {<< <<Session(FALSE, <<GoodRun, r>>)>> >> : r \in SiblingRuns}
    \cup { \* no subject
           <<>>,
           \* a session without phase files, or with a phase file without
           \* 'run-', before or after a good one
           << <<Session(FALSE, <<>>), GoodSession>> >>,
           << <<GoodSession, Session(FALSE, <<>>)>> >>,
           << <<Session(TRUE, <<GoodRun>>), GoodSession>> >>,
           \* a session below a directory with 'run-' in its name, with a
           \* phase file without 'run-' in its own name next to a good run
           << <<Session(FALSE, <<NamelessRun, GoodRun>>), GoodSession>> >>,
           \* a subject without sessions before or after a good one
           << <<>>, <<GoodSession>> >>,
           << <<GoodSession>>, <<>> >>,
           << <<GoodSession>>, <<GoodSession>> >> }

\* The settings the workflows are built with: what process_args returns,
\* with --use_existing_masks given or not and --num_echoes absent, 0 or 1.
WfArgs ==
    {RunArgs(process_args(Namespace(m, q, ab, sp, ic, <<>>, <<>>, FALSE), 1), u, ne) :
        m \in MaskingChoices \cup {<<>>}, q \in AlgorithmChoices,
        ab \in BOOLEAN, sp \in BOOLEAN, ic \in BOOLEAN, u \in BOOLEAN,
        ne \in {<<>>, <<0>>, <<1>>}}

\* Line 87: copy.deepcopy(args)
DeepCopy(args) == args

\* The program after a session is finished: the next session, the next
\* subject, or the end of init_workflow.
AfterSession(w) ==
    IF w.sj < Len(w.tree[w.si])
        THEN [w EXCEPT !.pc = "session", !.sj = w.sj + 1, !.rk = 0]
    ELSE IF w.si < Len(w.tree)
        THEN [w EXCEPT !.pc = "subject", !.si = w.si + 1, !.sj = 0, !.rk = 0]
    ELSE [w EXCEPT !.pc = "done"]

\* The program after a run is finished.
AfterRun(w) ==
    IF w.rk < Len(w.tree[w.si][w.sj].runs)
        THEN [w EXCEPT !.rk = w.rk + 1]
    ELSE AfterSession(w)

\* Line 609 onwards: the options processed, init_workflow not yet called.
WfInit ==
    /\ disk = <<>>
    /\ pre = disk
    /\ call = NoCall
    /\ par = NoPar
    /\ vox = NoVox
    /\ cli = NoCli
    /\ logger = NoLogger
    /\ \E t \in Trees, a \in WfArgs :
          wf = [tree |-> t, args |-> a, given |-> a, pc |-> "start",
                si |-> 0, sj |-> 0, rk |-> 0,
                runs |-> <<>>, logged |-> <<>>, exit_code |-> <<>>]

\* Lines 27-43: init_workflow(args) up to its first subject.
InitWorkflow ==
    /\ wf.pc = "start"
    /\ wf' = IF wf.tree = <<>>
             THEN [wf EXCEPT !.pc = "exited", !.exit_code = <<1>>,
                             !.logged = Append(@, ERROR)]
             ELSE [wf EXCEPT !.pc = "subject", !.si = 1]
    /\ UNCHANGED <<disk, pre, call, par, vox, cli, logger>>

\* Lines 45-63: init_subject_workflow(args, subject) up to its first
\* session.
InitSubjectWorkflow ==
    /\ wf.pc = "subject"
    /\ wf' = IF wf.tree[wf.si] = <<>>
             THEN [wf EXCEPT !.pc = "exited", !.exit_code = <<1>>,
                             !.logged = Append(@, ERROR)]
             ELSE [wf EXCEPT !.pc = "session", !.sj = 1]
    /\ UNCHANGED <<disk, pre, call, par, vox, cli, logger>>

\* Lines 65-90: init_session_workflow(args, subject, session) up to its
\* first run. The session is skipped when it has no phase file, or when
\* 'run-' is missing from the whole path of one (line 74).
InitSessionWorkflow ==
    /\ wf.pc = "session"
    /\ wf' = IF wf.tree[wf.si][wf.sj].runs = <<>>
                    \/ wf.tree[wf.si][wf.sj].norun
             THEN AfterSession([wf EXCEPT !.logged = Append(@, WARNING)])
             ELSE [wf EXCEPT !.pc = "run", !.rk = 1]
    /\ UNCHANGED <<disk, pre, call, par, vox, cli, logger>>

\* Line 87: init_run_workflow(copy.deepcopy(args), subject, session, run)
InitRunWorkflow ==
    /\ wf.pc = "run"
    /\ \E r \in {init_run_workflow(DeepCopy(wf.args),
                                   wf.tree[wf.si][wf.sj].runs[wf.rk])} :
          wf' = Bind([wf EXCEPT
                        !.runs = Append(@, [unit |-> <<wf.si, wf.sj, wf.rk>>,
                                            run |-> r]),
                        !.logged = @ \o r.logged],
                     LAMBDA w : IF r.outcome = "raised"
                                THEN [w EXCEPT !.pc = "raised"]
                                ELSE AfterRun(w))
    /\ UNCHANGED <<disk, pre, call, par, vox, cli, logger>>

WfNext ==
    \/ InitWorkflow
    \/ InitSubjectWorkflow
    \/ InitSessionWorkflow
    \/ InitRunWorkflow

WfSpec == WfInit /\ [][WfNext]_vars


\* ---------------------------------------------------------------------
\* Properties of the construction of the workflows (WfSpec)
\* ---------------------------------------------------------------------

\* Whether the program has left init_workflow.
WfEnded == wf.pc \in {"done", "exited", "raised"}

\* The runs found: subject, session and run indices.
Units ==
    {<<i, j, k>> \in (1..2) \X (1..2) \X (1..2) :
        /\ i <= Len(wf.tree)
        /\ j <= Len(wf.tree[i])
        /\ k <= Len(wf.tree[i][j].runs)}

\* The outcomes of the calls of init_run_workflow, other than skips.
BuiltRuns ==
    {wf.runs[n].run : n \in {n \in DOMAIN wf.runs :
                                wf.runs[n].run.outcome # "skipped"}}

\* Whether the run u, taken alone, has what its workflow needs: its session
\* has no phase file without 'run-' in its path, its phase files are there
\* and its JSON files are as many.
Buildable(u) ==
    /\ ~wf.tree[u[1]][u[2]].norun
    /\ Take(wf.tree[u[1]][u[2]].runs[u[3]].phase, wf.given.num_echoes) # 0
    /\ Take(wf.tree[u[1]][u[2]].runs[u[3]].phase, wf.given.num_echoes)
           = Take(wf.tree[u[1]][u[2]].runs[u[3]].params, wf.given.num_echoes)

\* C22 (as the specification states it): a failure or a skip found for one
\* subject, session or run never prevents the workflows of its siblings
\* from being built: when init_workflow has ended, every run that has what
\* its workflow needs has been built, with the settings the run alone
\* would get.
C22_SiblingIsolation ==
    WfEnded =>
        \A u \in Units :
            Buildable(u) =>
                \E n \in DOMAIN wf.runs :
                    /\ wf.runs[n].unit = u
                    /\ wf.runs[n].run.outcome = "built"
                    /\ wf.runs[n].run.run_args
                           = init_run_workflow(
                                 wf.given,
                                 wf.tree[u[1]][u[2]].runs[u[3]]).run_args

\* C23: a run built with --use_existing_masks and a validated mask list
\* that is not empty has inhomogeneity_correction, two_pass and add_bet
\* false and single_pass true; a run built with an empty mask list has
\* two_pass and single_pass as process_args left them, and add_bet and
\* inhomogeneity_correction too unless the no-magnitude fallback cleared
\* them.
C23_ExistingMasksOverride ==
    \A r \in BuiltRuns :
        /\ (wf.given.use_existing_masks /\ r.mask_files # 0) =>
               /\ ~r.run_args.inhomogeneity_correction
               /\ ~r.run_args.two_pass
               /\ r.run_args.single_pass
               /\ ~r.run_args.add_bet
        /\ r.mask_files = 0 =>
               /\ r.run_args.two_pass = wf.given.two_pass
               /\ r.run_args.single_pass = wf.given.single_pass
               /\ r.magnitude_files # 0 =>
                      /\ r.run_args.add_bet = wf.given.add_bet
                      /\ r.run_args.inhomogeneity_correction
                             = wf.given.inhomogeneity_correction
                      /\ r.run_args.masking = wf.given.masking
               /\ r.magnitude_files = 0 =>
                      /\ ~r.run_args.add_bet
                      /\ ~r.run_args.inhomogeneity_correction

\* Two masks for two phase files, with --add_bet and two-pass settings:
\* the run is built with the four settings overridden.
C23_Witness ==
    \E r \in BuiltRuns :
        /\ wf.given.use_existing_masks /\ wf.given.add_bet
        /\ wf.given.two_pass /\ wf.given.inhomogeneity_correction
        /\ r.mask_files = 2 /\ r.phase_files = 2
        /\ ~r.run_args.add_bet /\ ~r.run_args.two_pass
        /\ r.run_args.single_pass
        /\ ~r.run_args.inhomogeneity_correction

\* C24: a run built without magnitude files, when the masking was
\* magnitude-based or a BET masking, or add_bet or
\* inhomogeneity_correction was set, has phase-based masking, add_bet and
\* inhomogeneity_correction false, and no axial-resampling node.
C24_NoMagnitudeFallback ==
    \A r \in BuiltRuns :
        (r.magnitude_files = 0
            /\ \/ wf.given.masking \in {MagnitudeBased, Bet, BetFirstecho}
               \/ wf.given.add_bet
               \/ wf.given.inhomogeneity_correction) =>
            /\ r.outcome = "built"
            /\ r.run_args.masking = PhaseBased
            /\ ~r.run_args.add_bet
            /\ ~r.run_args.inhomogeneity_correction
            /\ ~r.axial

\* A run with BET masking and no magnitude file, built with phase-based
\* masking and without the resampling node.
C24_Witness ==
    \E r \in BuiltRuns :
        /\ wf.given.masking = Bet
        /\ r.magnitude_files = 0 /\ r.phase_files = 2
        /\ r.outcome = "built"
        /\ r.run_args.masking = PhaseBased
        /\ ~r.axial

\* C25: the mask list of a run that is built is empty or as long as its
\* phase list.
C25_MaskCount ==
    \A r \in BuiltRuns : r.mask_files = 0 \/ r.mask_files = r.phase_files

\* A single mask found for two phase files: the list handed on has two
\* entries.
C25_Witness ==
    \E n \in DOMAIN wf.runs :
        /\ wf.given.use_existing_masks /\ wf.given.num_echoes = <<>>
        /\ wf.tree[wf.runs[n].unit[1]][wf.runs[n].unit[2]]
               .runs[wf.runs[n].unit[3]].masks = 1
        /\ wf.runs[n].run.outcome = "built"
        /\ wf.runs[n].run.phase_files = 2
        /\ wf.runs[n].run.mask_files = 2

\* C26: whenever the inhomogeneity-correction node of a run is created, the
\* run has magnitude files and its axial-resampling node was created; no
\* run raises on a resampling node that does not exist.
C26_NodesExist ==
    \A r \in BuiltRuns :
        /\ r.outcome # "raised"
        /\ r.inhomogeneity => (r.magnitude_files # 0 /\ r.axial)

\* --inhomogeneity_correction given with magnitude-based masking and no
\* magnitude file: the run is built without the correction node; and it is
\* built with the node when the magnitude is there.
C26_Witness ==
    \E r \in BuiltRuns :
        /\ wf.given.inhomogeneity_correction
        /\ wf.given.masking = MagnitudeBased
        /\ r.magnitude_files = 0
        /\ r.outcome = "built"
        /\ ~r.inhomogeneity /\ ~r.axial

\* C27 (as the specification states it): the lists an axial-resampling
\* MapNode iterates over have the same length: as many magnitude files as
\* phase files and as JSON files.
C27_PairedLists ==
    \A r \in BuiltRuns :
        r.axial =>
            /\ r.axial_iterfield[1] = r.axial_iterfield[2]
            /\ r.magnitude_files = r.phase_files
            /\ r.magnitude_files = r.params_files

=============================================================================
